---- MODULE Spec2Model ----
(***************************************************************************)
(* Model of the dnm-clock-poc timekeeping core:                            *)
(*   - the clock kernel CLOCK_WORKER_SCRIPT (a dedicated worker that owns  *)
(*     the clock state and paints it once per changed second),             *)
(*   - the reconciliation store of useBroadcastMatchTimer (main thread),   *)
(*     with the timer worker TIMER_WORKER_SCRIPT that wakes it up.         *)
(* Time is performance.now() in whole milliseconds.                        *)
(***************************************************************************)
EXTENDS Integers, Sequences, FiniteSets, TLC

\* ------------------------------------------------------------------ bounds
\* Length of one step of the monotonic clock, and the number of steps.
StepMs == 400
MaxSteps == 5
\* ADJUST_TIME is additive: the number of ADJUST_TIME commands of a run.
MaxAdjusts == 1
\* The number of times the cleanup of the store's worker effect is run.
MaxCleanups == 2
\* Messages MissionClock may have posted and the kernel not yet processed.
MaxToKernel == 1
\* The number of clock steps in the runs of MissionClock.
MaxMissionSteps == 2
\* The step of the clock and the number of steps in the runs of the timer worker
\* on its own.
TimerStepMs == 20
MaxTimerSteps == 12

\* -------------------------------------------------------- program constants
MsPerSecond == 1000
TICK_RATE_MS == 50

\* Inputs.
InitialSecondsSet == {0, 5}
SetTimeArgs == {0, 3600, -3}
AdjustArgs == {3600, -10}
Geometries == {<<0, 0>>, <<800, 600>>}
\* The config objects that reach the kernel, by name: DEFAULT_CONFIG, a complete
\* config with other values (what MissionClock posts: its activeConfig is the
\* defaults overlaid with the config prop), and a payload with textColor only.
Configs == {"default", "custom", "partial"}
OptionNames == {"textColor", "glowEffect"}
\* config.textColor and config.glowEffect of a config object, as paint reads them
Options(config) ==
    CASE config = "default" -> [textColor |-> "#22c55e", glowEffect |-> "true"]
      [] config = "custom" -> [textColor |-> "red", glowEffect |-> "false"]
      [] config = "partial" -> [textColor |-> "red", glowEffect |-> "undefined"]
      [] OTHER -> [textColor |-> "undefined", glowEffect |-> "undefined"]

VARIABLES
    now,               \* performance.now(), ms
    steps,             \* number of clock steps taken
    fresh,             \* no time has passed since the last handler ran
    \* ---- clock kernel (CLOCK_WORKER_SCRIPT)
    ctx,               \* TRUE once INIT has taken the 2d context
    animationFrameId,  \* 0 is null, else the id of the last requested frame
    state,             \* the kernel's state object
    rafCallbacks,      \* ids of the frame callbacks requested and not yet run or cancelled
    surface,           \* what the canvas shows: the last fillText
    \* ---- observation of the kernel's last handler
    lastMsg,           \* type of the message (or "FRAME") processed last
    lastArg,           \* its numeric argument (0 if none)
    wasRunning,        \* state.isRunning when that handler began
    painted,           \* arguments of the paint() calls made by the last handler
    adjusts,           \* number of ADJUST_TIME processed
    hist,              \* history of the run, for the statements about it
    \* ---- MissionClock, the component that owns a kernel
    clock,             \* its effect's worker, URL, observer and refs
    toKernel,          \* messages posted to the kernel, not yet processed
    \* ---- reconciliation store (useBroadcastMatchTimer) and its timer worker
    mounted,           \* "rendered" before the worker effect ran, then "mounted"
    store,             \* store.current
    workerUrl,         \* the effect's workerUrl is set (a blob URL was created)
    logged,            \* console.error('Clock Worker Init Failed:') was called
    toWorker,          \* messages posted to the timer worker, not yet processed
    intervalId,        \* TIMER_WORKER_SCRIPT: an interval timer is set
    ticks,             \* TICK messages posted by the worker, not yet processed
    terminated,        \* terminate() was called on the worker of store.worker
    revoked,           \* URL.revokeObjectURL(workerUrl) was called
    cleanups,          \* number of times the effect's cleanup ran
    timer,             \* TIMER_WORKER_SCRIPT run on its own: the interval timer's clock
    naive,             \* NaiveClock: its React state, its ref and its interval
    \* ---- observation of the store's last handler
    lastOp,            \* "start", "pause", "setTime", "TICK", ... run last
    opArg,             \* its numeric argument (0 if none)
    opWasRunning,      \* store.isRunning when it began
    replaced,          \* it installed a new snapshot
    calls,             \* how often it called each listener
    seen,              \* <<store>>: the store as the listeners it called found it
    posted,            \* the messages it posted to the worker
    shist              \* history of the run, for the statements about it

mvars == <<clock, toKernel>>
kvars == <<ctx, animationFrameId, state, rafCallbacks, surface,
           lastMsg, lastArg, wasRunning, painted, adjusts, hist, mvars>>
tvars == <<terminated, revoked, cleanups, timer, naive>>
svars == <<mounted, store, workerUrl, logged, toWorker, intervalId, ticks, tvars,
           lastOp, opArg, opWasRunning, replaced, calls, seen, posted, shist>>
vars == <<now, steps, fresh, kvars, svars>>

Max(a, b) == IF a >= b THEN a ELSE b
Abs(n) == IF n < 0 THEN -n ELSE n

\* The values of JavaScript that are not numbers of the model: NaN (the product,
\* sum or floor of something that is not a number) and undefined (a field the
\* payload does not have). Both are below every number the clock computes.
NaN == -2000000000
Undefined == -2000000001
IsNum(x) == x # NaN /\ x # Undefined
\* a * b, a + b, a !== b
JsTimes(a, b) == IF IsNum(a) /\ IsNum(b) THEN a * b ELSE NaN
JsPlus(a, b) == IF IsNum(a) /\ IsNum(b) THEN a + b ELSE NaN
JsDiffers(a, b) == a = NaN \/ b = NaN \/ a # b
\* Math.floor(a / b) for b > 0
Floor(a, b) == IF IsNum(a) THEN a \div b ELSE NaN

\* ------------------------------------------------------------------ paint
Pad2(i) == IF i < 10 THEN "0" \o ToString(i) ELSE ToString(i)
DIGITS == [i \in 0..59 |-> Pad2(i)]

\* DIGITS[i]: the entry of the table, undefined for an index that is not one
Digit(i) == IF IsNum(i) /\ i \in DOMAIN DIGITS THEN DIGITS[i] ELSE "undefined"

\* (variant: the hours are not taken modulo 60)
TimeTextHoursUnwrapped(displaySeconds) ==
    LET absSeconds == Abs(displaySeconds)
    IN  (IF displaySeconds < 0 THEN "-" ELSE "")
            \o Digit(Floor(absSeconds, 3600)) \o ":"
            \o Digit(Floor(absSeconds % 3600, 60)) \o ":"
            \o Digit(absSeconds % 60)

\* (variant: the sign of a negative second is dropped)
TimeTextUnsigned(displaySeconds) ==
    LET absSeconds == Abs(displaySeconds)
    IN  DIGITS[Floor(absSeconds, 3600) % 60] \o ":"
            \o DIGITS[Floor(absSeconds % 3600, 60)] \o ":"
            \o DIGITS[absSeconds % 60]

TimeText(displaySeconds) ==
    LET absSeconds == IF IsNum(displaySeconds) THEN Abs(displaySeconds) ELSE NaN
        h == Digit(IF IsNum(absSeconds) THEN Floor(absSeconds, 3600) % 60 ELSE NaN)
        m == Digit(IF IsNum(absSeconds) THEN Floor(absSeconds % 3600, 60) ELSE NaN)
        s == Digit(IF IsNum(absSeconds) THEN absSeconds % 60 ELSE NaN)
        prefix == IF IsNum(displaySeconds) /\ displaySeconds < 0 THEN "-" ELSE ""
    IN  prefix \o h \o ":" \o m \o ":" \o s

NoSurface == [text |-> "", width |-> 0, height |-> 0, config |-> ""]

\* paint(displaySeconds): what the canvas shows afterwards. cx, st and old are the
\* context, the state object and the canvas content at the call.
paint(displaySeconds, cx, st, old) ==
    IF ~cx \/ st.width = 0 \/ st.height = 0
    THEN old
    ELSE [text |-> TimeText(displaySeconds), width |-> st.width, height |-> st.height,
          config |-> st.config]

\* ------------------------------------------------------------ kernel state
KernelState0 ==
    [baseTimeMs |-> 0, startTimeMs |-> 0, isRunning |-> FALSE,
     lastRenderedSecond |-> -1, width |-> 0, height |-> 0, config |-> "default"]

\* I1: the total of the kernel at time t
KernelTotalMs(st, t) ==
    JsPlus(st.baseTimeMs, IF st.isRunning THEN t - st.startTimeMs ELSE 0)

\* requestAnimationFrame: a handle no pending callback and no kept handle uses
NewFrameId(pending, kept) ==
    CHOOSE i \in 1..(Cardinality(pending) + 2) :
        /\ i \notin pending
        /\ i # kept
        /\ \A j \in 1..(i - 1) : j \in pending \/ j = kept

\* --------------------------------------------------------------- history
\* What the statements about a run of the kernel refer to, recorded from the
\* commands alone (never from the kernel's state):
\* initial    while pure: initialSeconds of INIT
\* open       a START has been processed and no PAUSE after it
\* anchorAt   while open: the time at which the START that opened the interval, or
\*            a later SET_TIME, was processed (0 while not open)
\* pure       no SET_TIME or ADJUST_TIME was processed so far
\* runs, runSum   while pure: the number of closed START..PAUSE intervals (0, 1,
\*            or 2 for two and more) and the sum of their lengths
\* setTime    <<s>> after SET_TIME(s) processed while open, until the next START,
\*            PAUSE, SET_TIME or ADJUST_TIME; <<>> otherwise
\* secOfRun, paintsOfRun   the whole second computed by the frame callbacks since
\*            the last command, as long as it stays the same, and the number of
\*            paint() calls these callbacks made
Hist0 ==
    [initial |-> 0, open |-> FALSE, anchorAt |-> 0, pure |-> TRUE,
     runs |-> 0, runSum |-> 0,
     setTime |-> <<>>, secOfRun |-> <<>>, paintsOfRun |-> 0]

\* a command (not a frame callback) ends the run of frame callbacks
EndRun(h) == [h EXCEPT !.secOfRun = <<>>, !.paintsOfRun = 0]

HistStart(h, t) ==
    LET e == EndRun([h EXCEPT !.setTime = <<>>])
    IN  IF e.open THEN e ELSE [e EXCEPT !.open = TRUE, !.anchorAt = t]

HistPause(h, t) ==
    LET e == EndRun([h EXCEPT !.setTime = <<>>])
    IN  IF ~e.open THEN e
        ELSE [e EXCEPT !.open = FALSE, !.anchorAt = 0,
                       !.runs = IF e.pure THEN (IF @ < 2 THEN @ + 1 ELSE @) ELSE 0,
                       !.runSum = IF e.pure THEN @ + (t - e.anchorAt) ELSE 0]

HistSetTime(h, s, t) ==
    LET e == EndRun([h EXCEPT !.pure = FALSE, !.runs = 0, !.runSum = 0, !.initial = 0])
    IN  IF e.open THEN [e EXCEPT !.anchorAt = t, !.setTime = <<s>>]
        ELSE [e EXCEPT !.setTime = <<>>]

HistAdjust(h) ==
    EndRun([h EXCEPT !.pure = FALSE, !.runs = 0, !.runSum = 0, !.initial = 0, !.setTime = <<>>])

HistFrame(h, second, paints) ==
    IF h.secOfRun = <<second>> /\ IsNum(second)
    THEN [h EXCEPT !.paintsOfRun = @ + paints]
    ELSE [h EXCEPT !.secOfRun = <<second>>, !.paintsOfRun = paints]

\* --------------------------------------------------- messages to the kernel
Msg(type, a, b, c) == [type |-> type, a |-> a, b |-> b, config |-> c]

\* the kernel's onmessage gets its message: handed over directly while no
\* component owns the kernel (the kernel script run on its own), else the oldest
\* message the component posted to a worker that is still alive
KernelRuns == clock.phase = "headless" \/ clock.alive

\* (variant: the newest message is delivered first)
ReceiveNewest(m) ==
    /\ IF clock.phase = "headless"
       THEN toKernel' = toKernel
       ELSE /\ clock.alive
            /\ toKernel # <<>>
            /\ toKernel[Len(toKernel)] = m
            /\ toKernel' = SubSeq(toKernel, 1, Len(toKernel) - 1)
    /\ clock' = clock

Receive(m) ==
    /\ IF clock.phase = "headless"
       THEN toKernel' = toKernel
       ELSE /\ clock.alive
            /\ toKernel # <<>>
            /\ Head(toKernel) = m
            /\ toKernel' = Tail(toKernel)
    /\ clock' = clock

\* MissionClock before its effect ran, and the kernel script run without it
Clock0 ==
    [phase |-> "rendered", alive |-> FALSE, observing |-> FALSE,
     workerRef |-> FALSE, url |-> "none", controller |-> FALSE,
     calledAfter |-> FALSE, worker |-> 0, inits |-> 0, first |-> "none",
     app |-> FALSE]

Headless == [Clock0 EXCEPT !.phase = "headless"]

KInit ==
    /\ toKernel = <<>>
    /\ ctx = FALSE
    /\ animationFrameId = 0
    /\ state = KernelState0
    /\ rafCallbacks = {}
    /\ surface = NoSurface
    /\ lastMsg = "NONE"
    /\ lastArg = 0
    /\ wasRunning = FALSE
    /\ painted = <<>>
    /\ adjusts = 0
    /\ hist = Hist0

\* ------------------------------------------------------------------- time
Advance ==
    /\ steps < MaxSteps
    /\ now' = now + StepMs
    /\ steps' = steps + 1
    /\ fresh' = FALSE
    /\ UNCHANGED <<kvars, svars>>

\* --------------------------------------------------------- kernel handlers
\* Each handler is the state object it leaves (a function of the state object and
\* of performance.now()), and the action that applies it with its other effects.

\* case 'INIT' (the first message of a kernel; MissionClock posts it once)
\* (payload.config of INIT is DEFAULT_CONFIG, the config MissionClock mounts with)
OnInit(st, initialSeconds) ==
    [st EXCEPT !.config = "default",
               !.baseTimeMs = initialSeconds * MsPerSecond,
               !.lastRenderedSecond = initialSeconds]

K_INIT(initialSeconds) ==
    /\ lastMsg = "NONE"
    /\ ctx' = TRUE
    /\ state' = OnInit(state, initialSeconds)
    /\ surface' = paint(initialSeconds, ctx', state', surface)
    /\ painted' = <<initialSeconds>>
    /\ lastMsg' = "INIT"
    /\ lastArg' = initialSeconds
    /\ wasRunning' = state.isRunning
    /\ hist' = [Hist0 EXCEPT !.initial = initialSeconds]
    /\ UNCHANGED <<animationFrameId, rafCallbacks, adjusts, now, steps, svars>>
    /\ Receive(Msg("INIT", initialSeconds, 0, "default"))
    /\ fresh' = TRUE

\* case 'RESIZE'
\* (variant: RESIZE forgets the last rendered second)
OnResizeForgetsSecond(st, w, h) ==
    [st EXCEPT !.width = w, !.height = h, !.lastRenderedSecond = -1]

OnResize(st, w, h) == [st EXCEPT !.width = w, !.height = h]

K_RESIZE(w, h) ==
    /\ lastMsg # "NONE"
    /\ state' = OnResize(state, w, h)
    /\ IF state.lastRenderedSecond >= 0
       THEN /\ surface' = paint(state.lastRenderedSecond, ctx, state', surface)
            /\ painted' = <<state.lastRenderedSecond>>
       ELSE /\ surface' = surface
            /\ painted' = <<>>
    /\ lastMsg' = "RESIZE"
    /\ lastArg' = 0
    /\ wasRunning' = state.isRunning
    /\ hist' = EndRun(hist)
    /\ UNCHANGED <<ctx, animationFrameId, rafCallbacks, adjusts, now, steps, svars>>
    /\ Receive(Msg("RESIZE", w, h, ""))
    /\ fresh' = TRUE

\* case 'UPDATE_CONFIG'
OnUpdateConfig(st, config) == [st EXCEPT !.config = config]

K_UPDATE_CONFIG(config) ==
    /\ lastMsg # "NONE"
    /\ state' = OnUpdateConfig(state, config)
    /\ IF state.lastRenderedSecond >= 0
       THEN /\ surface' = paint(state.lastRenderedSecond, ctx, state', surface)
            /\ painted' = <<state.lastRenderedSecond>>
       ELSE /\ surface' = surface
            /\ painted' = <<>>
    /\ lastMsg' = "UPDATE_CONFIG"
    /\ lastArg' = 0
    /\ wasRunning' = state.isRunning
    /\ hist' = EndRun(hist)
    /\ UNCHANGED <<ctx, animationFrameId, rafCallbacks, adjusts, now, steps, svars>>
    /\ Receive(Msg("UPDATE_CONFIG", 0, 0, config))
    /\ fresh' = TRUE

\* case 'START'
\* (variant: START re-anchors although the clock is running)
OnStartUnguarded(st, t) == [st EXCEPT !.isRunning = TRUE, !.startTimeMs = t]

\* (variant: a resumed clock keeps the anchor of its first START)
OnStartKeepAnchor(st, t) ==
    IF st.isRunning THEN st
    ELSE [st EXCEPT !.isRunning = TRUE,
                    !.startTimeMs = IF st.startTimeMs = 0 THEN t ELSE @]

OnStart(st, t) ==
    IF st.isRunning THEN st
    ELSE [st EXCEPT !.isRunning = TRUE, !.startTimeMs = t]

K_START ==
    /\ lastMsg # "NONE"
    /\ state' = OnStart(state, now)
    /\ IF state.isRunning
       THEN UNCHANGED <<animationFrameId, rafCallbacks>>
       ELSE /\ animationFrameId' = NewFrameId(rafCallbacks, animationFrameId)
            /\ rafCallbacks' = rafCallbacks \cup {animationFrameId'}
    /\ painted' = <<>>
    /\ lastMsg' = "START"
    /\ lastArg' = 0
    /\ wasRunning' = state.isRunning
    /\ hist' = HistStart(hist, now)
    /\ UNCHANGED <<ctx, surface, adjusts, now, steps, svars>>
    /\ Receive(Msg("START", 0, 0, ""))
    /\ fresh' = TRUE

\* case 'PAUSE'
\* the frame callbacks still pending after PAUSE: cancelAnimationFrame(animationFrameId)
\* (variant: PAUSE cancels nothing)
CancelOnPauseNever(st, id, pending) == pending

CancelOnPause(st, id, pending) ==
    IF st.isRunning /\ id # 0 THEN pending \ {id} ELSE pending

\* (variant: PAUSE folds and cancels and leaves the running flag set)
OnPauseKeepsRunning(st, t) ==
    IF ~st.isRunning THEN st
    ELSE [st EXCEPT !.baseTimeMs = JsPlus(@, t - st.startTimeMs)]

OnPause(st, t) ==
    IF ~st.isRunning THEN st
    ELSE [st EXCEPT !.isRunning = FALSE,
                    !.baseTimeMs = JsPlus(@, t - st.startTimeMs)]

K_PAUSE ==
    /\ lastMsg # "NONE"
    /\ state' = OnPause(state, now)
    /\ rafCallbacks' = CancelOnPause(state, animationFrameId, rafCallbacks)
    /\ painted' = <<>>
    /\ lastMsg' = "PAUSE"
    /\ lastArg' = 0
    /\ wasRunning' = state.isRunning
    /\ hist' = HistPause(hist, now)
    /\ UNCHANGED <<ctx, animationFrameId, surface, adjusts, now, steps, svars>>
    /\ Receive(Msg("PAUSE", 0, 0, ""))
    /\ fresh' = TRUE

\* case 'SET_TIME'
\* (variant: SET_TIME while running keeps the anchor)
OnSetTimeKeepAnchor(st, seconds, t) ==
    [st EXCEPT !.baseTimeMs = seconds * MsPerSecond,
               !.lastRenderedSecond = seconds]

OnSetTime(st, seconds, t) ==
    [st EXCEPT !.baseTimeMs = JsTimes(seconds, MsPerSecond),
               !.startTimeMs = IF st.isRunning THEN t ELSE @,
               !.lastRenderedSecond = seconds]

K_SET_TIME(seconds) ==
    /\ lastMsg # "NONE"
    /\ state' = OnSetTime(state, seconds, now)
    /\ surface' = paint(seconds, ctx, state', surface)
    /\ painted' = <<seconds>>
    /\ lastMsg' = "SET_TIME"
    /\ lastArg' = seconds
    /\ wasRunning' = state.isRunning
    /\ hist' = HistSetTime(hist, seconds, now)
    /\ UNCHANGED <<ctx, animationFrameId, rafCallbacks, adjusts, now, steps, svars>>
    /\ Receive(Msg("SET_TIME", seconds, 0, ""))
    /\ fresh' = TRUE

\* case 'ADJUST_TIME'
\* (variant: ADJUST_TIME while running resets the anchor, as SET_TIME does)
OnAdjustTimeReanchor(st, deltaSeconds, t) ==
    LET based == [st EXCEPT !.baseTimeMs = @ + deltaSeconds * MsPerSecond,
                            !.startTimeMs = IF st.isRunning THEN t ELSE @]
    IN  [based EXCEPT !.lastRenderedSecond =
                          Floor(KernelTotalMs(based, t), MsPerSecond)]

OnAdjustTime(st, deltaSeconds, t) ==
    LET based == [st EXCEPT !.baseTimeMs =
                                JsPlus(@, JsTimes(deltaSeconds, MsPerSecond))]
        currentTotalMs == KernelTotalMs(based, t)
        newSecond == Floor(currentTotalMs, MsPerSecond)
    IN  [based EXCEPT !.lastRenderedSecond = newSecond]

K_ADJUST_TIME(deltaSeconds) ==
    /\ lastMsg # "NONE"
    /\ adjusts < MaxAdjusts
    /\ adjusts' = adjusts + 1
    /\ state' = OnAdjustTime(state, deltaSeconds, now)
    /\ surface' = paint(state'.lastRenderedSecond, ctx, state', surface)
    /\ painted' = <<state'.lastRenderedSecond>>
    /\ lastMsg' = "ADJUST_TIME"
    /\ lastArg' = deltaSeconds
    /\ wasRunning' = state.isRunning
    /\ hist' = HistAdjust(hist)
    /\ UNCHANGED <<ctx, animationFrameId, rafCallbacks, now, steps, svars>>
    /\ Receive(Msg("ADJUST_TIME", deltaSeconds, 0, ""))
    /\ fresh' = TRUE

\* function loop(): the whole second it computes, and whether it paints
\* (variant: the loop counts a second per frame callback)
LoopSecondCountingFrames(st, t) == st.lastRenderedSecond + 1

\* (variant: no dirty check)
LoopPaintsAlways(st, currentSecond) == TRUE

\* (variant: the loop reports the time since the last START only)
LoopSecondIgnoringBase(st, t) == Floor(t - st.startTimeMs, MsPerSecond)

LoopSecond(st, t) ==
    LET elapsedMs == t - st.startTimeMs
        totalMs == JsPlus(st.baseTimeMs, elapsedMs)
    IN  Floor(totalMs, MsPerSecond)

LoopPaints(st, currentSecond) == JsDiffers(currentSecond, st.lastRenderedSecond)

\* a frame callback requested with requestAnimationFrame(loop) runs
K_FRAME(id) ==
    /\ id \in rafCallbacks
    /\ KernelRuns
    /\ UNCHANGED mvars
    /\ lastMsg' = "FRAME"
    /\ lastArg' = 0
    /\ wasRunning' = state.isRunning
    /\ IF ~state.isRunning
       THEN /\ rafCallbacks' = rafCallbacks \ {id}
            /\ painted' = <<>>
            /\ UNCHANGED <<state, animationFrameId, surface, hist>>
       ELSE LET currentSecond == LoopSecond(state, now)
                paints == LoopPaints(state, currentSecond)
            IN  /\ state' = IF paints
                            THEN [state EXCEPT !.lastRenderedSecond = currentSecond]
                            ELSE state
                /\ surface' = IF paints
                              THEN paint(currentSecond, ctx, state', surface)
                              ELSE surface
                /\ painted' = IF paints THEN <<currentSecond>> ELSE <<>>
                /\ animationFrameId' =
                       NewFrameId(rafCallbacks \ {id}, animationFrameId)
                /\ rafCallbacks' = (rafCallbacks \ {id}) \cup {animationFrameId'}
                /\ hist' = HistFrame(hist, currentSecond, Len(painted'))
    /\ UNCHANGED <<ctx, adjusts, now, steps, svars>>
    /\ fresh' = TRUE

\* a message whose type is none of the cases of the switch
K_UNKNOWN ==
    /\ lastMsg # "NONE"
    /\ painted' = <<>>
    /\ lastMsg' = "UNKNOWN"
    /\ lastArg' = 0
    /\ wasRunning' = state.isRunning
    /\ hist' = EndRun(hist)
    /\ UNCHANGED <<ctx, animationFrameId, state, rafCallbacks, surface, adjusts,
                   now, steps, svars>>
    /\ Receive(Msg("UNKNOWN", 0, 0, ""))
    /\ fresh' = TRUE

\* SET_TIME or ADJUST_TIME posted without a payload: reading payload.seconds or
\* payload.deltaSeconds throws before anything is assigned; the exception ends
\* this call of onmessage
K_NoPayload(type) ==
    /\ lastMsg # "NONE"
    /\ type \in {"SET_TIME", "ADJUST_TIME"}
    /\ painted' = <<>>
    /\ lastMsg' = "THROWN"
    /\ lastArg' = 0
    /\ wasRunning' = state.isRunning
    /\ hist' = EndRun(hist)
    /\ UNCHANGED <<ctx, animationFrameId, state, rafCallbacks, surface, adjusts,
                   now, steps, svars>>
    /\ Receive(Msg(type, Undefined, 0, "no payload"))
    /\ fresh' = TRUE

KNext ==
    \/ Advance
    \/ \E s \in InitialSecondsSet : K_INIT(s)
    \/ \E g \in Geometries : K_RESIZE(g[1], g[2])
    \/ K_START
    \/ K_PAUSE
    \/ \E s \in SetTimeArgs : K_SET_TIME(s)
    \/ \E d \in AdjustArgs : K_ADJUST_TIME(d)
    \/ \E id \in rafCallbacks : K_FRAME(id)


\* ============================================================ MissionClock
\* what the page passes to the controller, and the size the observer reports
ControllerSetTimeArgs == {3600}
ControllerAdjustArgs == {-10}
ObservedGeometries == {<<800, 600>>}

\* worker.postMessage(msg): a terminated worker drops what is posted to it
PostToKernel(c, msg) ==
    toKernel' = IF c.alive THEN Append(toKernel, msg) ELSE toKernel

\* (observation: the component was called after its unmount)
Called(c) == [c EXCEPT !.calledAfter = (c.phase = "unmounted")]

\* (observation: the first type posted to the worker the effect created, and how
\* many INIT messages were posted to it)
Posting(c, type) ==
    [Called(c) EXCEPT !.first = IF @ = "none" THEN type ELSE @,
                      !.inits = IF type = "INIT" THEN @ + 1 ELSE @]

\* new Worker(workerUrl): the effect's worker, nothing posted to it yet
NewWorker(c) ==
    [c EXCEPT !.phase = "mounted", !.alive = TRUE, !.workerRef = TRUE,
              !.url = "created", !.worker = @ + 1, !.inits = 0, !.first = "none",
              !.calledAfter = FALSE]

\* what the effect does after posting INIT: observes the container and binds the
\* controller
Bound(c) == [c EXCEPT !.observing = TRUE, !.controller = TRUE]

\* the effect: creates the kernel worker from a blob URL, posts INIT, observes the
\* container and binds the controller
\* (variant: the effect binds the observer and the controller and posts no INIT)
M_MountWithoutInit(initialSeconds) ==
    /\ clock.phase = "rendered"
    /\ clock' = Bound(NewWorker(clock))
    /\ toKernel' = <<>>

M_Mount(initialSeconds) ==
    /\ clock.phase = "rendered"
    /\ clock' = Bound(Posting(NewWorker(clock), "INIT"))
    /\ toKernel' = <<Msg("INIT", initialSeconds, 0, "default")>>

\* the ResizeObserver callback
M_Resize(w, h) ==
    /\ clock.observing
    /\ Len(toKernel) < MaxToKernel
    /\ PostToKernel(clock, Msg("RESIZE", w, h, ""))
    /\ clock' = Posting(clock, "RESIZE")

\* controllerRef.current.start(), pause(), setTime(s)
M_Start ==
    /\ clock.controller
    /\ Len(toKernel) < MaxToKernel
    /\ PostToKernel(clock, Msg("START", 0, 0, ""))
    /\ clock' = Posting(clock, "START")

M_Pause ==
    /\ clock.controller
    /\ Len(toKernel) < MaxToKernel
    /\ PostToKernel(clock, Msg("PAUSE", 0, 0, ""))
    /\ clock' = Posting(clock, "PAUSE")

M_SetTime(s) ==
    /\ clock.controller
    /\ Len(toKernel) < MaxToKernel
    /\ PostToKernel(clock, Msg("SET_TIME", s, 0, ""))
    /\ clock' = Posting(clock, "SET_TIME")

\* controllerRef.current.adjustTime(delta)
M_AdjustTime(delta) ==
    /\ clock.controller
    /\ Len(toKernel) < MaxToKernel
    /\ PostToKernel(clock, Msg("ADJUST_TIME", delta, 0, ""))
    /\ clock' = Posting(clock, "ADJUST_TIME")

\* the effect on activeConfig
M_ConfigEffect(config) ==
    /\ clock.phase \in {"mounted", "unmounted"}
    /\ Len(toKernel) < MaxToKernel
    /\ toKernel' = IF clock.workerRef
                   THEN Append(toKernel, Msg("UPDATE_CONFIG", 0, 0, config))
                   ELSE toKernel
    /\ clock' = IF clock.workerRef THEN Posting(clock, "UPDATE_CONFIG")
                 ELSE Called(clock)

\* the cleanup the effect returned
\* (variant: the cleanup forgets worker.terminate())
CleanupClockKeepsWorker(c) ==
    [c EXCEPT !.phase = "unmounted", !.observing = FALSE, !.workerRef = FALSE,
              !.url = "revoked"]

CleanupClock(c) ==
    [c EXCEPT !.phase = "unmounted", !.observing = FALSE, !.alive = FALSE,
              !.workerRef = FALSE, !.url = "revoked"]

\* unmount; terminate() stops the kernel for good and discards what was posted
M_Unmount ==
    /\ clock.phase = "mounted"
    /\ clock' = CleanupClock(clock)
    /\ toKernel' = IF clock'.alive THEN toKernel ELSE <<>>

\* App's actions: each calls the controller of MissionClock, and start and pause
\* set App's own isRunning state (clock.app) without asking the kernel
\* the commands App may have sent and the kernel not yet processed
MaxQueued == 2

A_Start ==
    /\ clock.controller
    /\ Len(toKernel) < MaxQueued
    /\ PostToKernel(clock, Msg("START", 0, 0, ""))
    /\ clock' = [Posting(clock, "START") EXCEPT !.app = TRUE]

A_Pause ==
    /\ clock.controller
    /\ Len(toKernel) < MaxQueued
    /\ PostToKernel(clock, Msg("PAUSE", 0, 0, ""))
    /\ clock' = [Posting(clock, "PAUSE") EXCEPT !.app = FALSE]

A_SetTime(s) ==
    /\ clock.controller
    /\ Len(toKernel) < MaxQueued
    /\ PostToKernel(clock, Msg("SET_TIME", s, 0, ""))
    /\ clock' = Posting(clock, "SET_TIME")

A_AdjustTime(delta) ==
    /\ clock.controller
    /\ Len(toKernel) < MaxQueued
    /\ PostToKernel(clock, Msg("ADJUST_TIME", delta, 0, ""))
    /\ clock' = Posting(clock, "ADJUST_TIME")

\* the component mounted again after its cleanup (React 18 Strict Mode mounts,
\* cleans up and mounts again): the effect runs a second time and creates another
\* worker, whose script starts from its initial globals
MaxWorkers == 2

M_Remount(initialSeconds) ==
    /\ clock.phase = "unmounted"
    /\ clock.worker < MaxWorkers
    /\ clock' = Bound(Posting(NewWorker(clock), "INIT"))
    /\ toKernel' = <<Msg("INIT", initialSeconds, 0, "default")>>
    /\ ctx' = FALSE
    /\ animationFrameId' = 0
    /\ state' = KernelState0
    /\ rafCallbacks' = {}
    /\ surface' = NoSurface
    /\ lastMsg' = "NONE"
    /\ lastArg' = 0
    /\ wasRunning' = FALSE
    /\ painted' = <<>>
    /\ adjusts' = 0
    /\ hist' = Hist0
    /\ UNCHANGED <<now, steps, fresh, svars>>

\* the component's own steps change nothing in the kernel
Component(A) ==
    /\ A
    /\ UNCHANGED <<ctx, animationFrameId, state, rafCallbacks, surface,
                   lastMsg, lastArg, wasRunning, painted, adjusts, hist,
                   now, steps, fresh, svars>>

MissionNext ==
    \/ steps < MaxMissionSteps /\ Advance
    \/ \E s \in InitialSecondsSet : Component(M_Mount(s))
    \/ \E g \in ObservedGeometries : Component(M_Resize(g[1], g[2]))
    \/ Component(M_Start)
    \/ Component(M_Pause)
    \/ \E s \in ControllerSetTimeArgs : Component(M_SetTime(s))
    \/ \E d \in ControllerAdjustArgs : Component(M_AdjustTime(d))
    \/ Component(M_ConfigEffect("custom"))
    \/ Component(M_Unmount)
    \/ \E s \in InitialSecondsSet : K_INIT(s)
    \/ \E g \in ObservedGeometries : K_RESIZE(g[1], g[2])
    \/ K_UPDATE_CONFIG("custom")
    \/ K_START
    \/ K_PAUSE
    \/ \E s \in ControllerSetTimeArgs : K_SET_TIME(s)
    \/ \E d \in ControllerAdjustArgs : K_ADJUST_TIME(d)
    \/ \E id \in rafCallbacks : K_FRAME(id)

\* =================================================== reconciliation store
Listeners == {"l1", "l2"}
StoreSetTimeArgs == {0, 2, -3}
\* messages the store may have posted and the worker not yet processed; TICKs the
\* worker may have posted and the store not yet processed
MaxToWorker == 1
MaxTicks == 1

\* a % b of JavaScript (the sign of the dividend), b > 0
JsRem(a, b) == IF a >= 0 THEN a % b ELSE -((-a) % b)

\* n.toString().padStart(2, '0')
PadStart2(n) == IF 0 <= n /\ n < 10 THEN "0" \o ToString(n) ELSE ToString(n)

formatTime(totalSeconds) ==
    LET h == Floor(totalSeconds, 3600)
        m == Floor(JsRem(totalSeconds, 3600), 60)
        s == JsRem(totalSeconds, 60)
    IN  PadStart2(h) \o ":" \o PadStart2(m) \o ":" \o PadStart2(s)

\* useRef({...}): the store of a hook called with initialSeconds
Store0(initialSeconds) ==
    [baseDurationMs |-> initialSeconds * MsPerSecond,
     startTimeMs |-> 0,
     isRunning |-> FALSE,
     snapshot |-> [displayTime |-> formatTime(initialSeconds),
                   totalSeconds |-> initialSeconds,
                   isRunning |-> FALSE],
     worker |-> FALSE,
     listeners |-> {}]

\* (variant: the time since the anchor is added whether or not the clock runs)
calculateStateIgnoresPause(s, t) ==
    LET currentTotalMs == s.baseDurationMs + (t - s.startTimeMs)
        totalSeconds == Max(0, Floor(currentTotalMs, MsPerSecond))
    IN  [displayTime |-> formatTime(totalSeconds),
         totalSeconds |-> totalSeconds,
         isRunning |-> s.isRunning]

\* (variant: a second per wake-up instead of the anchored difference)
calculateStateCountingTicks(s, t) ==
    LET totalSeconds == IF s.isRunning /\ s.snapshot.isRunning
                        THEN s.snapshot.totalSeconds + 1
                        ELSE Max(0, Floor(s.baseDurationMs, MsPerSecond))
    IN  [displayTime |-> formatTime(totalSeconds),
         totalSeconds |-> totalSeconds,
         isRunning |-> s.isRunning]

\* (variant: no clamp at zero)
calculateStateUnclamped(s, t) ==
    LET totalSeconds ==
            Floor(s.baseDurationMs + (IF s.isRunning THEN t - s.startTimeMs ELSE 0),
                  MsPerSecond)
    IN  [displayTime |-> formatTime(totalSeconds),
         totalSeconds |-> totalSeconds,
         isRunning |-> s.isRunning]

calculateState(s, t) ==
    LET currentTotalMs ==
            s.baseDurationMs + (IF s.isRunning THEN t - s.startTimeMs ELSE 0)
        totalSeconds == Max(0, Floor(currentTotalMs, MsPerSecond))
    IN  [displayTime |-> formatTime(totalSeconds),
         totalSeconds |-> totalSeconds,
         isRunning |-> s.isRunning]

\* emitChange: whether it finds a change, and the store it leaves
\* (variant: only the whole second is compared)
EmitDirtySecondOnly(s, t) ==
    calculateState(s, t).totalSeconds # s.snapshot.totalSeconds

\* (variant: no dirty check)
EmitDirtyAlways(s, t) == TRUE

EmitDirty(s, t) ==
    LET newState == calculateState(s, t)
        oldState == s.snapshot
    IN  \/ newState.totalSeconds # oldState.totalSeconds
        \/ newState.isRunning # oldState.isRunning

emitChange(s, t) ==
    IF EmitDirty(s, t) THEN [s EXCEPT !.snapshot = calculateState(s, t)] ELSE s

\* listeners.forEach(listener => listener()), when emitChange found a change
\* (variant: a listener stays in the set after its unregister function was called)
EmitCallsUnregistered(s, t) ==
    [l \in Listeners |-> IF EmitDirty(s, t) THEN 1 ELSE 0]

EmitCalls(s, t) ==
    [l \in Listeners |-> IF EmitDirty(s, t) /\ l \in s.listeners THEN 1 ELSE 0]

NoCalls == [l \in Listeners |-> 0]

\* start(), pause(), setTime(seconds) up to their emitChange()
StartMutation(s, t) == [s EXCEPT !.isRunning = TRUE, !.startTimeMs = t]

\* (variant: pause() loses the time the clock ran)
PauseMutationNoFold(s, t) == [s EXCEPT !.isRunning = FALSE]

PauseMutation(s, t) ==
    [s EXCEPT !.baseDurationMs = @ + (t - s.startTimeMs), !.isRunning = FALSE]

\* (variant: setTime() while running keeps the anchor of start())
SetTimeMutationKeepAnchor(s, seconds, t) ==
    [s EXCEPT !.baseDurationMs = seconds * MsPerSecond]

SetTimeMutation(s, seconds, t) ==
    [s EXCEPT !.baseDurationMs = seconds * MsPerSecond,
              !.startTimeMs = IF s.isRunning THEN t ELSE @]

\* the whole handlers: the store they leave
\* (variant: start() re-anchors although the clock is running)
StoreStartUnguarded(s, t) == emitChange(StartMutation(s, t), t)

\* (variant: start() does nothing without a worker)
StoreStartNeedsWorker(s, t) ==
    IF s.isRunning \/ ~s.worker THEN s ELSE emitChange(StartMutation(s, t), t)

\* (variant: setTime() leaves the snapshot to the next TICK)
StoreSetTimeNoEmit(s, seconds, t) == SetTimeMutation(s, seconds, t)

StoreStart(s, t) == IF s.isRunning THEN s ELSE emitChange(StartMutation(s, t), t)
StorePause(s, t) == IF ~s.isRunning THEN s ELSE emitChange(PauseMutation(s, t), t)
StoreSetTime(s, seconds, t) == emitChange(SetTimeMutation(s, seconds, t), t)
StoreTick(s, t) == emitChange(s, t)

\* --------------------------------------------------------------- history
\* started   <<t0, B>>: start() was called at t0 with base B while the clock was
\*           not running, and no pause() or setTime() was called since (a start()
\*           while running changes nothing and is not counted); <<>> otherwise
\* open      start() was called and pause() was not called after it
\* setTime   <<t, s>>: setTime(s) was called at t while the clock was running, and
\*           no start(), pause() or setTime() was called since; <<>> otherwise
\* secOfTicks, notesOfTicks   the totalSeconds recomputed by the TICKs handled
\*           since the last command, as long as it stays the same, and the number
\*           of these TICKs that notified the listeners
\* lastPost, alternates   the type of the last message posted to the worker
\*           ("none" before the first), and whether every message posted so far
\*           was a START after no message or a STOP, or a STOP after a START
SHist0 ==
    [started |-> <<>>, open |-> FALSE, setTime |-> <<>>,
     secOfTicks |-> <<>>, notesOfTicks |-> 0,
     lastPost |-> "none", alternates |-> TRUE]

SEndRun(h) == [h EXCEPT !.secOfTicks = <<>>, !.notesOfTicks = 0]

SHistStart(h, t, base) ==
    IF h.open THEN SEndRun(h)
    ELSE SEndRun([h EXCEPT !.open = TRUE, !.started = <<t, base>>, !.setTime = <<>>])

SHistPause(h) ==
    SEndRun([h EXCEPT !.open = FALSE, !.started = <<>>, !.setTime = <<>>])

SHistSetTime(h, seconds, t) ==
    SEndRun([h EXCEPT !.started = <<>>,
                      !.setTime = IF h.open THEN <<t, seconds>> ELSE <<>>])

\* p: the messages the handler posted
SHistPosted(h, p) ==
    IF p = <<>> THEN h
    ELSE [h EXCEPT !.lastPost = p[1],
                   !.alternates =
                       /\ @
                       /\ IF p[1] = "START" THEN h.lastPost \in {"none", "STOP"}
                          ELSE p[1] = "STOP" /\ h.lastPost = "START"]

SHistTick(h, second, notes) ==
    IF h.secOfTicks = <<second>>
    THEN [h EXCEPT !.notesOfTicks = @ + notes]
    ELSE [h EXCEPT !.secOfTicks = <<second>>, !.notesOfTicks = notes]

\* The interval timer of the worker script run on its own: due is the time of the
\* next callback while an interval is set; since and count are the time at which
\* the last START was processed and the number of TICKs posted since; active is
\* the set of the times at which the intervals that were set and not cleared are
\* due next; last is the type of the last START or STOP processed and was tells
\* whether an interval was set when it arrived.
Timer0 ==
    [due |-> 0, since |-> 0, count |-> 0, active |-> {}, last |-> "none",
     was |-> FALSE]

\* ------------------------------------------------------------ NaiveClock
\* the period of its setInterval
NAIVE_TICK_MS == 50
\* what the page passes to setTime and adjustTime
NaiveSetTimeArgs == {0}
NaiveAdjustArgs == {-1}
\* the step of time while the clock runs (it ends between two callbacks) and
\* while it does not, the time up to which steps are taken, and the number of
\* start() calls that start the clock
NaiveStepMs == 30
NaiveIdleMs == 400
MaxNaiveMs == 1500
MaxNaiveStarts == 2

\* formatTime of NaiveClock.tsx: signed, the hours not wrapped
NaiveFormatTime(totalSeconds) ==
    LET absSeconds == Abs(totalSeconds)
        h == Floor(absSeconds, 3600)
        m == Floor(absSeconds % 3600, 60)
        s == absSeconds % 60
    IN  (IF totalSeconds < 0 THEN "-" ELSE "")
            \o PadStart2(h) \o ":" \o PadStart2(m) \o ":" \o PadStart2(s)

\* useState("00:00:00"), useState(false), useRef({startTime: 0, baseTime: 0}); due
\* is the time of the next callback of the effect's interval (0: no interval).
\* History of the run, recorded from the calls alone: starts and pauses count the
\* start() and pause() calls that took effect, a is the length of the first run,
\* resumedAt the time of the last start(), ticked the time of the last callback
\* since then (-1: none yet), pausedAt and atPause the time and the display when
\* pause() returned, pure tells that setTime and adjustTime were never called,
\* edits counts their calls. The history is kept up to the first such call, and
\* of the times up to the second pause().
Naive0 ==
    [displayTime |-> "00:00:00", isRunning |-> FALSE, startTime |-> 0,
     baseTime |-> 0, due |-> 0,
     starts |-> 0, pauses |-> 0, a |-> 0, resumedAt |-> 0, ticked |-> -1,
     pausedAt |-> 0, atPause |-> "00:00:00", pure |-> TRUE, edits |-> 0]

NaiveHist(n) ==
    IF ~n.pure
    THEN [n EXCEPT !.starts = IF @ = 0 THEN 0 ELSE 1, !.pauses = 0, !.a = 0,
                   !.resumedAt = 0, !.ticked = -1, !.pausedAt = 0,
                   !.atPause = "00:00:00"]
    ELSE IF n.pauses = 2
    THEN [n EXCEPT !.a = 0, !.resumedAt = 0, !.ticked = -1, !.pausedAt = 0]
    ELSE n

\* the second the interval's callback displays
\* (variant: the callback shows the time since the last start() only)
NaiveTickSecondIgnoringBase(n, t) == Floor(t - n.startTime, MsPerSecond)

NaiveTickSecond(n, t) ==
    LET diff == t - n.startTime
        totalMs == n.baseTime + diff
    IN  Floor(totalMs, MsPerSecond)

\* the effect of [isRunning] after a commit: the cleanup clears the interval of
\* the previous run, and a running clock gets a new one
NaiveEffect(n, t) ==
    [n EXCEPT !.due = IF n.isRunning THEN t + NAIVE_TICK_MS ELSE 0]

\* the handle's methods, each followed by the commit of the state it set
NaiveStart(n, t) ==
    IF n.isRunning THEN n
    ELSE NaiveEffect([n EXCEPT !.startTime = t, !.isRunning = TRUE,
                               !.starts = @ + 1, !.resumedAt = t, !.ticked = -1], t)

NaivePause(n, t) ==
    IF ~n.isRunning THEN n
    ELSE NaiveEffect([n EXCEPT !.baseTime = @ + (t - n.startTime),
                               !.isRunning = FALSE,
                               !.pauses = IF @ < 2 THEN @ + 1 ELSE @,
                               !.a = IF n.pauses = 0 THEN t - n.startTime ELSE @,
                               !.pausedAt = t,
                               !.atPause = n.displayTime], t)

NaiveSetTime(n, seconds, t) ==
    [n EXCEPT !.baseTime = seconds * MsPerSecond,
              !.startTime = IF n.isRunning THEN t ELSE @,
              !.displayTime = NaiveFormatTime(seconds),
              !.pure = FALSE, !.edits = @ + 1]

NaiveAdjustTime(n, delta, t) ==
    LET base == n.baseTime + delta * MsPerSecond
        diff == IF n.isRunning THEN t - n.startTime ELSE 0
        totalSec == Floor(base + diff, MsPerSecond)
    IN  [n EXCEPT !.baseTime = base,
                  !.displayTime = NaiveFormatTime(totalSec),
                  !.pure = FALSE, !.edits = @ + 1]

NaiveOnly(A) ==
    /\ A
    /\ fresh' = TRUE
    /\ UNCHANGED <<now, steps, kvars, mounted, store, workerUrl, logged, toWorker,
                   intervalId, ticks, terminated, revoked, cleanups, timer,
                   lastOp, opArg, opWasRunning, replaced, calls, seen, posted, shist>>

N_Start ==
    /\ naive.starts < MaxNaiveStarts \/ naive.isRunning
    /\ NaiveOnly(naive' = NaiveHist(NaiveStart(naive, now)))

N_Pause == NaiveOnly(naive' = NaiveHist(NaivePause(naive, now)))

N_SetTime(seconds) ==
    /\ naive.edits < MaxAdjusts
    /\ NaiveOnly(naive' = NaiveHist(NaiveSetTime(naive, seconds, now)))

N_AdjustTime(delta) ==
    /\ naive.edits < MaxAdjusts
    /\ NaiveOnly(naive' = NaiveHist(NaiveAdjustTime(naive, delta, now)))

\* the interval's callback runs when it is due, and commits the display it set
N_Interval ==
    /\ naive.due # 0
    /\ naive.due = now
    /\ NaiveOnly(naive' = NaiveHist([naive EXCEPT
                              !.displayTime =
                                  NaiveFormatTime(NaiveTickSecond(naive, now)),
                              !.due = @ + NAIVE_TICK_MS,
                              !.ticked = now]))

\* time passes, by one step and at most up to the next callback; the clock reads
\* differences of times only, so the first start() is taken at time 0; a run is
\* followed in time up to its first setTime or adjustTime
N_Advance(d) ==
    /\ now < MaxNaiveMs
    /\ naive.starts > 0
    /\ naive.pure
    /\ ~(naive.due # 0 /\ naive.due = now)
    /\ now' = IF naive.due # 0 /\ naive.due < now + d THEN naive.due ELSE now + d
    /\ fresh' = FALSE
    /\ UNCHANGED <<steps, kvars, svars>>

NaiveNext ==
    \/ \E d \in (IF naive.isRunning THEN {NaiveStepMs} ELSE {NaiveIdleMs}) :
           N_Advance(d)
    \/ N_Start
    \/ N_Pause
    \/ \E s \in NaiveSetTimeArgs : N_SetTime(s)
    \/ \E d \in NaiveAdjustArgs : N_AdjustTime(d)
    \/ N_Interval

SInit ==
    /\ mounted = "rendered"
    /\ store \in {Store0(i) : i \in InitialSecondsSet}
    /\ workerUrl = FALSE
    /\ logged = FALSE
    /\ toWorker = <<>>
    /\ intervalId = FALSE
    /\ ticks = 0
    /\ terminated = FALSE
    /\ revoked = FALSE
    /\ cleanups = 0
    /\ timer = Timer0
    /\ naive = Naive0
    /\ lastOp = "NONE"
    /\ opArg = 0
    /\ opWasRunning = FALSE
    /\ replaced = FALSE
    /\ calls = NoCalls
    /\ seen = <<>>
    /\ posted = <<>>
    /\ shist = SHist0

\* what a handler that ran emitChange on s at t is seen to have done
Observe(s, t) ==
    /\ replaced' = EmitDirty(s, t)
    /\ calls' = EmitCalls(s, t)
    /\ seen' = IF EmitDirty(s, t) /\ s.listeners # {}
               THEN <<emitChange(s, t)>> ELSE <<>>

ObserveNothing ==
    /\ replaced' = FALSE
    /\ calls' = NoCalls
    /\ seen' = <<>>

\* s.worker?.postMessage(msg)
\* (variant: pause() forwards nothing to the worker)
PostStartOnly(s, msg) ==
    /\ toWorker' = IF s.worker /\ ~terminated /\ msg = "START"
                   THEN Append(toWorker, msg) ELSE toWorker
    /\ posted' = IF s.worker /\ msg = "START" THEN <<msg>> ELSE <<>>

\* (variant: the message is queued whether or not a worker was created)
PostUnchecked(s, msg) ==
    /\ toWorker' = Append(toWorker, msg)
    /\ posted' = <<msg>>

Post(s, msg) ==
    /\ toWorker' = IF s.worker /\ ~terminated THEN Append(toWorker, msg) ELSE toWorker
    /\ posted' = IF s.worker THEN <<msg>> ELSE <<>>

\* the effect that creates the worker: "ok", or the Worker constructor throws, or
\* URL.createObjectURL throws
UseEffect(outcome) ==
    /\ mounted = "rendered"
    /\ mounted' = "mounted"
    /\ workerUrl' = (outcome # "urlThrows")
    /\ store' = [store EXCEPT !.worker = (outcome = "ok")]
    /\ logged' = (outcome # "ok")
    /\ lastOp' = "effect"
    /\ opArg' = 0
    /\ opWasRunning' = store.isRunning
    /\ ObserveNothing
    /\ posted' = <<>>
    /\ UNCHANGED <<toWorker, intervalId, ticks, shist, now, steps, kvars, tvars>>
    /\ fresh' = TRUE

Subscribe(l) ==
    /\ mounted = "mounted"
    /\ l \notin store.listeners
    /\ store' = [store EXCEPT !.listeners = @ \cup {l}]
    /\ lastOp' = "subscribe"
    /\ opArg' = 0
    /\ opWasRunning' = store.isRunning
    /\ ObserveNothing
    /\ posted' = <<>>
    /\ UNCHANGED <<mounted, workerUrl, logged, toWorker, intervalId, ticks, shist,
                   now, steps, kvars, tvars>>
    /\ fresh' = TRUE

\* the function subscribe(l) returned
Unsubscribe(l) ==
    /\ mounted = "mounted"
    /\ l \in store.listeners
    /\ store' = [store EXCEPT !.listeners = @ \ {l}]
    /\ lastOp' = "unsubscribe"
    /\ opArg' = 0
    /\ opWasRunning' = store.isRunning
    /\ ObserveNothing
    /\ posted' = <<>>
    /\ UNCHANGED <<mounted, workerUrl, logged, toWorker, intervalId, ticks, shist,
                   now, steps, kvars, tvars>>
    /\ fresh' = TRUE

Start ==
    /\ mounted \in {"mounted", "unmounted"}
    /\ Len(toWorker) < MaxToWorker
    /\ store' = StoreStart(store, now)
    /\ IF store.isRunning
       THEN ObserveNothing /\ posted' = <<>> /\ toWorker' = toWorker
       ELSE Observe(StartMutation(store, now), now) /\ Post(store, "START")
    /\ lastOp' = "start"
    /\ opArg' = 0
    /\ opWasRunning' = store.isRunning
    /\ shist' = SHistPosted(SHistStart(shist, now, store.baseDurationMs), posted')
    /\ UNCHANGED <<mounted, workerUrl, logged, intervalId, ticks, now, steps, kvars, tvars>>
    /\ fresh' = TRUE

Pause ==
    /\ mounted \in {"mounted", "unmounted"}
    /\ Len(toWorker) < MaxToWorker
    /\ store' = StorePause(store, now)
    /\ IF ~store.isRunning
       THEN ObserveNothing /\ posted' = <<>> /\ toWorker' = toWorker
       ELSE Observe(PauseMutation(store, now), now) /\ Post(store, "STOP")
    /\ lastOp' = "pause"
    /\ opArg' = 0
    /\ opWasRunning' = store.isRunning
    /\ shist' = SHistPosted(SHistPause(shist), posted')
    /\ UNCHANGED <<mounted, workerUrl, logged, intervalId, ticks, now, steps, kvars, tvars>>
    /\ fresh' = TRUE

SetTime(seconds) ==
    /\ mounted \in {"mounted", "unmounted"}
    /\ store' = StoreSetTime(store, seconds, now)
    /\ Observe(SetTimeMutation(store, seconds, now), now)
    /\ posted' = <<>>
    /\ lastOp' = "setTime"
    /\ opArg' = seconds
    /\ opWasRunning' = store.isRunning
    /\ shist' = SHistSetTime(shist, seconds, now)
    /\ UNCHANGED <<mounted, workerUrl, logged, toWorker, intervalId, ticks,
                   now, steps, kvars, tvars>>
    /\ fresh' = TRUE

\* the cleanup function the effect returned: whether it revokes the blob URL
\* (variant: the URL is revoked only together with a worker)
CleanupRevokesWithWorker(s, url) == url /\ s.worker

CleanupRevokes(s, url) == url

\* the cleanup runs (unmount); terminate() stops the worker for good: its interval
\* is gone, and what was queued to it or by it is discarded
Cleanup ==
    /\ mounted \in {"mounted", "unmounted"}
    /\ cleanups < MaxCleanups
    /\ cleanups' = cleanups + 1
    /\ mounted' = "unmounted"
    /\ IF store.worker
       THEN /\ terminated' = TRUE
            /\ toWorker' = <<>>
            /\ intervalId' = FALSE
            /\ ticks' = 0
       ELSE UNCHANGED <<terminated, toWorker, intervalId, ticks>>
    /\ revoked' = (revoked \/ CleanupRevokes(store, workerUrl))
    /\ lastOp' = "cleanup"
    /\ opArg' = 0
    /\ opWasRunning' = store.isRunning
    /\ ObserveNothing
    /\ posted' = <<>>
    /\ UNCHANGED <<store, workerUrl, logged, shist, timer, naive, now, steps, kvars>>
    /\ fresh' = TRUE

\* worker.onmessage of the store: a TICK arrives
OnTick ==
    /\ ticks > 0
    /\ ticks' = ticks - 1
    /\ store' = StoreTick(store, now)
    /\ Observe(store, now)
    /\ posted' = <<>>
    /\ lastOp' = "TICK"
    /\ opArg' = 0
    /\ opWasRunning' = store.isRunning
    /\ shist' = SHistTick(shist, calculateState(store, now).totalSeconds,
                          IF EmitDirty(store, now) THEN 1 ELSE 0)
    /\ UNCHANGED <<mounted, workerUrl, logged, toWorker, intervalId, now, steps, kvars, tvars>>
    /\ fresh' = TRUE

\* ------------------------------------------------ TIMER_WORKER_SCRIPT
\* self.onmessage: START clears a set interval and sets one, STOP clears it
\* (variant: STOP leaves the interval running)
WorkerIntervalStopIgnored(type, old) == IF type = "START" THEN TRUE ELSE old

WorkerInterval(type, old) ==
    IF type = "START" THEN TRUE
    ELSE IF type = "STOP" THEN FALSE
    ELSE old

W_OnMessage ==
    /\ toWorker # <<>>
    /\ intervalId' = WorkerInterval(Head(toWorker), intervalId)
    /\ toWorker' = Tail(toWorker)
    /\ UNCHANGED <<mounted, store, workerUrl, logged, ticks, lastOp, opArg,
                   opWasRunning, replaced, calls, seen, posted, shist,
                   now, steps, kvars, tvars>>
    /\ UNCHANGED fresh

\* the interval fires: self.postMessage({ type: 'TICK' })
W_Interval ==
    /\ intervalId
    /\ ticks < MaxTicks
    /\ ticks' = ticks + 1
    /\ UNCHANGED <<mounted, store, workerUrl, logged, toWorker, intervalId, lastOp,
                   opArg, opWasRunning, replaced, calls, seen, posted, shist,
                   now, steps, kvars, tvars>>
    /\ UNCHANGED fresh

\* ---- the worker script run on its own, with the clock of setInterval
\* the intervals that exist after self.onmessage: clearInterval(intervalId) if an
\* interval is set, and for START the new interval, due TICK_RATE_MS after t
\* (variant: START sets a new interval and leaves the old one running)
WorkerTimersKeepOld(type, id, tm, t) ==
    IF type = "START" THEN tm.active \cup {t + TICK_RATE_MS}
    ELSE IF type = "STOP" THEN (IF id THEN tm.active \ {tm.due} ELSE tm.active)
    ELSE tm.active

WorkerTimers(type, id, tm, t) ==
    LET cleared == IF id THEN tm.active \ {tm.due} ELSE tm.active
    IN  IF type = "START" THEN cleared \cup {t + TICK_RATE_MS}
        ELSE IF type = "STOP" THEN cleared
        ELSE tm.active

\* self.onmessage handed a message directly
T_OnMessage(type) ==
    /\ intervalId' = WorkerInterval(type, intervalId)
    /\ timer' = [timer EXCEPT
                    !.due = IF type = "START" THEN now + TICK_RATE_MS ELSE @,
                    !.since = IF type = "START" THEN now ELSE @,
                    !.count = IF type = "START" THEN 0 ELSE @,
                    !.active = WorkerTimers(type, intervalId, timer, now),
                    !.last = IF type \in {"START", "STOP"} THEN type ELSE @,
                    !.was = IF type \in {"START", "STOP"} THEN intervalId ELSE @]
    /\ UNCHANGED <<mounted, store, workerUrl, logged, toWorker, ticks,
                   terminated, revoked, cleanups, naive, lastOp, opArg,
                   opWasRunning, replaced, calls, seen, posted, shist,
                   now, steps, kvars>>
    /\ fresh' = TRUE

\* the interval's callback runs when it is due, and the interval is due again
\* TICK_RATE_MS later
T_Interval ==
    /\ now \in timer.active
    /\ ticks' = ticks + 1
    /\ timer' = IF intervalId /\ timer.due = now
                THEN [timer EXCEPT !.due = @ + TICK_RATE_MS, !.count = @ + 1,
                                   !.active = (@ \ {now}) \cup {now + TICK_RATE_MS}]
                ELSE [timer EXCEPT
                         !.active = (@ \ {now}) \cup {now + TICK_RATE_MS}]
    /\ UNCHANGED <<mounted, store, workerUrl, logged, toWorker, intervalId,
                   terminated, revoked, cleanups, naive, lastOp, opArg,
                   opWasRunning, replaced, calls, seen, posted, shist,
                   now, steps, kvars>>
    /\ fresh' = TRUE

\* time passes, up to the next callback that is due
T_Advance ==
    /\ steps < MaxTimerSteps
    /\ now \notin timer.active
    /\ now' = LET dues == {d \in timer.active : d < now + TimerStepMs}
              IN  IF dues # {}
                  THEN CHOOSE d \in dues : \A e \in dues : d <= e
                  ELSE now + TimerStepMs
    /\ steps' = steps + 1
    /\ fresh' = FALSE
    /\ UNCHANGED <<kvars, svars>>

TimerNext ==
    \/ T_Advance
    \/ \E type \in {"START", "STOP", "OTHER"} : T_OnMessage(type)
    \/ T_Interval

SNext ==
    \/ Advance
    \/ \E o \in {"ok", "workerThrows", "urlThrows"} : UseEffect(o)
    \/ \E l \in Listeners : Subscribe(l)
    \/ \E l \in Listeners : Unsubscribe(l)
    \/ Start
    \/ Pause
    \/ \E s \in StoreSetTimeArgs : SetTime(s)
    \/ OnTick
    \/ W_OnMessage
    \/ W_Interval

\* ------------------------------------------------------- specifications
Init ==
    /\ now = 0
    /\ steps = 0
    /\ fresh = TRUE
    /\ KInit
    /\ SInit
    /\ clock = Headless

\* the store from mount to unmount and after: the commands, the worker and the
\* cleanup of the worker effect (the listeners take no part in it)
TeardownNext ==
    \/ Advance
    \/ \E o \in {"ok", "workerThrows", "urlThrows"} : UseEffect(o)
    \/ Start
    \/ Pause
    \/ \E s \in StoreSetTimeArgs : SetTime(s)
    \/ OnTick
    \/ W_OnMessage
    \/ W_Interval
    \/ Cleanup

TeardownSpec == Init /\ [][TeardownNext]_vars

\* the clock kernel alone, and the store with its timer worker alone
KernelInit ==
    /\ Init
    /\ store = Store0(0)

KernelSpec == KernelInit /\ [][KNext]_vars

\* the kernel alone, handed well-formed and malformed messages: payload.seconds and
\* payload.deltaSeconds are numbers or missing, the payload itself may be missing,
\* the type may be unknown, the config of UPDATE_CONFIG complete or partial
PayloadSetTimeArgs == ControllerSetTimeArgs \cup {Undefined}
PayloadAdjustArgs == ControllerAdjustArgs \cup {Undefined}

PayloadNext ==
    \/ Advance
    \/ \E s \in InitialSecondsSet : K_INIT(s)
    \/ \E g \in ObservedGeometries : K_RESIZE(g[1], g[2])
    \/ K_START
    \/ K_PAUSE
    \/ \E s \in PayloadSetTimeArgs : K_SET_TIME(s)
    \/ \E d \in PayloadAdjustArgs : K_ADJUST_TIME(d)
    \/ \E id \in rafCallbacks : K_FRAME(id)
    \/ K_UNKNOWN
    \/ \E type \in {"SET_TIME", "ADJUST_TIME"} : K_NoPayload(type)
    \/ \E c \in Configs : K_UPDATE_CONFIG(c)

PayloadSpec == KernelInit /\ [][PayloadNext]_vars

\* the kernel alone, its canvas resized and reconfigured while the clock is
\* started, paused and set
SurfaceNext ==
    \/ steps < MaxMissionSteps /\ Advance
    \/ \E s \in InitialSecondsSet : K_INIT(s)
    \/ \E g \in ObservedGeometries : K_RESIZE(g[1], g[2])
    \/ \E c \in Configs : K_UPDATE_CONFIG(c)
    \/ K_START
    \/ K_PAUSE
    \/ \E s \in ControllerSetTimeArgs : K_SET_TIME(s)
    \/ \E id \in rafCallbacks : K_FRAME(id)

SurfaceSpec == KernelInit /\ [][SurfaceNext]_vars

\* the kernel asked to show whole seconds of every shape: each field at its ends,
\* the hours below, at and above 60, both signs
PaintHours == {0, 1, 59, 60, 61}
PaintMinutes == {0, 9, 59}
PaintSecs == {0, 10, 59}
PaintSeconds ==
    {sign * (h * 3600 + m * 60 + s) :
        sign \in {1, -1}, h \in PaintHours, m \in PaintMinutes, s \in PaintSecs}

PaintNext ==
    \/ \E s \in InitialSecondsSet : K_INIT(s)
    \/ \E g \in ObservedGeometries : K_RESIZE(g[1], g[2])
    \/ \E n \in PaintSeconds : K_SET_TIME(n)

PaintSpec == KernelInit /\ [][PaintNext]_vars

\* the timer worker alone
TimerInit ==
    /\ Init
    /\ store = Store0(0)

TimerSpec == TimerInit /\ [][TimerNext]_vars

\* NaiveClock alone
NaiveSpec == KernelInit /\ [][NaiveNext]_vars

\* MissionClock and its kernel
MissionInit ==
    /\ now = 0
    /\ steps = 0
    /\ fresh = TRUE
    /\ KInit
    /\ SInit
    /\ store = Store0(0)
    /\ clock = Clock0

MissionSpec == MissionInit /\ [][MissionNext]_vars

\* MissionClock mounted, unmounted and mounted again, and its kernels
RemountNext ==
    \/ \E s \in InitialSecondsSet : Component(M_Mount(s))
    \/ \E s \in InitialSecondsSet : M_Remount(s)
    \/ \E g \in ObservedGeometries : Component(M_Resize(g[1], g[2]))
    \/ Component(M_Start)
    \/ Component(M_Pause)
    \/ \E s \in ControllerSetTimeArgs : Component(M_SetTime(s))
    \/ \E d \in ControllerAdjustArgs : Component(M_AdjustTime(d))
    \/ Component(M_ConfigEffect("custom"))
    \/ Component(M_Unmount)
    \/ \E s \in InitialSecondsSet : K_INIT(s)
    \/ \E g \in ObservedGeometries : K_RESIZE(g[1], g[2])
    \/ K_UPDATE_CONFIG("custom")
    \/ K_START
    \/ K_PAUSE
    \/ \E s \in ControllerSetTimeArgs : K_SET_TIME(s)
    \/ \E d \in ControllerAdjustArgs : K_ADJUST_TIME(d)
    \/ \E id \in rafCallbacks : K_FRAME(id)

RemountSpec == MissionInit /\ [][RemountNext]_vars

\* App (or ChaosMonkey through App's actions) sending commands faster than the
\* kernel of its MissionClock processes them
ChaosNext ==
    \/ steps < MaxMissionSteps /\ Advance
    \/ \E s \in InitialSecondsSet : Component(M_Mount(s))
    \/ Component(A_Start)
    \/ Component(A_Pause)
    \/ \E s \in ControllerSetTimeArgs : Component(A_SetTime(s))
    \/ \E d \in ControllerAdjustArgs : Component(A_AdjustTime(d))
    \/ Component(M_Unmount)
    \/ \E s \in InitialSecondsSet : K_INIT(s)
    \/ K_START
    \/ K_PAUSE
    \/ \E s \in ControllerSetTimeArgs : K_SET_TIME(s)
    \/ \E d \in ControllerAdjustArgs : K_ADJUST_TIME(d)
    \/ \E id \in rafCallbacks : K_FRAME(id)

ChaosSpec == MissionInit /\ [][ChaosNext]_vars
StoreSpec == Init /\ [][SNext]_vars

\* The runs of C13: a page that mounts one of the two subsystems, the clock kernel
\* or the store (they share nothing but performance.now()), and then issues START
\* and PAUSE only, while frames and TICKs arrive at any time or late.
KernelOnly == mounted = "rendered" /\ store = Store0(0)
StoreOnly == lastMsg = "NONE"

RunNext ==
    \/ Advance
    \/ KernelOnly /\ \E s \in InitialSecondsSet : K_INIT(s)
    \/ KernelOnly /\ \E g \in Geometries : K_RESIZE(g[1], g[2])
    \/ KernelOnly /\ K_START
    \/ KernelOnly /\ K_PAUSE
    \/ KernelOnly /\ \E id \in rafCallbacks : K_FRAME(id)
    \/ StoreOnly /\ \E o \in {"ok", "workerThrows", "urlThrows"} : UseEffect(o)
    \/ StoreOnly /\ \E l \in Listeners : Subscribe(l)
    \/ StoreOnly /\ Start
    \/ StoreOnly /\ Pause
    \/ StoreOnly /\ OnTick
    \/ StoreOnly /\ W_OnMessage
    \/ StoreOnly /\ W_Interval

RunSpec == Init /\ [][RunNext]_vars

\* ================================================================ claims

\* C1. Store: after start() called at t0 with base B and no further command, the
\* snapshot right after every TICK handled at a time t >= t0 has
\* totalSeconds = max(0, floor((B + (t - t0)) / 1000)), whatever TICKs were
\* handled, delayed or missing before it.
C1_TickReportsAnchoredTotal ==
    (lastOp = "TICK" /\ fresh /\ shist.started # <<>>) =>
        LET t0 == shist.started[1]
            B == shist.started[2]
        IN  /\ now >= t0
            /\ store.snapshot.totalSeconds =
                   Max(0, Floor(B + (now - t0), MsPerSecond))

\* a TICK handled two or more seconds after start(), the snapshot moved by it
C1_Witness ==
    /\ lastOp = "TICK"
    /\ fresh
    /\ shist.started # <<>>
    /\ now - shist.started[1] >= 2 * MsPerSecond
    /\ replaced
    /\ store.snapshot.totalSeconds >= 2

\* C2. Kernel: every frame callback that runs while RUNNING at time t leaves
\* lastRenderedSecond = floor((baseTimeMs + (t - anchor)) / 1000), the anchor being
\* the time at which the START that started the clock, or a later SET_TIME, was
\* processed; the number of frame callbacks before it does not matter.
C2_FrameReportsAnchoredTotal ==
    (lastMsg = "FRAME" /\ fresh /\ wasRunning) =>
        /\ hist.open
        /\ state.startTimeMs = hist.anchorAt
        /\ state.lastRenderedSecond =
               Floor(state.baseTimeMs + (now - hist.anchorAt), MsPerSecond)

\* a frame callback that ran more than a second after the anchor and painted
C2_Witness ==
    /\ lastMsg = "FRAME"
    /\ fresh
    /\ wasRunning
    /\ now - hist.anchorAt > MsPerSecond
    /\ painted # <<>>

\* C3. Kernel: with START and PAUSE only (no SET_TIME, no ADJUST_TIME), baseTimeMs
\* after each PAUSE is initialSeconds * 1000 plus the sum of the lengths of the
\* START..PAUSE intervals; the time spent paused adds nothing.
C3_PauseFoldsRunIntervals ==
    (lastMsg = "PAUSE" /\ hist.pure) =>
        /\ ~state.isRunning
        /\ state.baseTimeMs = hist.initial * MsPerSecond + hist.runSum

\* the second PAUSE of start, run, pause, idle, start, run, pause
C3_Witness ==
    /\ lastMsg = "PAUSE"
    /\ wasRunning
    /\ hist.pure
    /\ hist.runs = 2
    /\ hist.runSum >= 2 * StepMs
    /\ now >= 3 * StepMs
    /\ state.startTimeMs >= 2 * StepMs

\* C4. Store: pause() called while running at time t sets baseDurationMs to
\* baseDurationMs + (t - startTimeMs) and isRunning to false and publishes a
\* snapshot with isRunning = false and totalSeconds = max(0, floor(base / 1000)), in
\* one step: the listeners it calls find exactly that store.
C4_PauseFoldsAndPublishes ==
    [][(Pause /\ store.isRunning) =>
          LET folded == store.baseDurationMs + (now - store.startTimeMs)
          IN  /\ store'.baseDurationMs = folded
              /\ ~store'.isRunning
              /\ store'.startTimeMs = store.startTimeMs
              /\ replaced'
              /\ ~store'.snapshot.isRunning
              /\ store'.snapshot.totalSeconds = Max(0, Floor(folded, MsPerSecond))
              /\ \A l \in store.listeners : calls'[l] = 1
              /\ store.listeners # {} => seen' = <<store'>>
      ]_vars

\* a pause() that folded running time and notified a listener
C4_Witness ==
    /\ lastOp = "pause"
    /\ opWasRunning
    /\ seen = <<store>>
    /\ store.snapshot.totalSeconds >= 1
    /\ store.baseDurationMs % MsPerSecond # 0

\* C5. Kernel: SET_TIME(s) processed while RUNNING at time t leaves
\* baseTimeMs = s * 1000 and startTimeMs = t, so that a frame callback at t + d
\* reports floor(s + d / 1000); processed while STOPPED it leaves the anchor and
\* the running flag as they were.
C5_SetTimeReanchors ==
    [][/\ \A s \in SetTimeArgs :
            K_SET_TIME(s) =>
                /\ state'.baseTimeMs = s * MsPerSecond
                /\ state'.isRunning = state.isRunning
                /\ state'.startTimeMs = IF state.isRunning THEN now
                                        ELSE state.startTimeMs
       /\ \A id \in rafCallbacks :
            (K_FRAME(id) /\ hist.setTime # <<>>) =>
                state'.lastRenderedSecond =
                    Floor(hist.setTime[1] * MsPerSecond + (now - hist.anchorAt),
                          MsPerSecond)
      ]_vars

\* start, run, SET_TIME(3600), run for more than a second, frame: 3601
C5_Witness ==
    /\ lastMsg = "FRAME"
    /\ fresh
    /\ hist.setTime = <<3600>>
    /\ hist.anchorAt >= StepMs
    /\ state.lastRenderedSecond = 3601

\* C6. Kernel: ADJUST_TIME(d), processed in either state, adds exactly d * 1000 to
\* baseTimeMs, leaves startTimeMs and isRunning unchanged, and immediately paints
\* floor(total / 1000), total being the I1 value at the processing time: the
\* canvas shows that second right after the command.
C6_AdjustAddsAndPaints ==
    [][\A d \in AdjustArgs :
          K_ADJUST_TIME(d) =>
              LET total == KernelTotalMs(
                               [state EXCEPT !.baseTimeMs = @ + d * MsPerSecond], now)
                  second == Floor(total, MsPerSecond)
              IN  /\ state'.baseTimeMs = state.baseTimeMs + d * MsPerSecond
                  /\ state'.startTimeMs = state.startTimeMs
                  /\ state'.isRunning = state.isRunning
                  /\ state'.lastRenderedSecond = second
                  /\ painted' = <<second>>
                  /\ surface'.text = TimeText(second)
      ]_vars

\* What the kernel does do on ADJUST_TIME(d): the same without the last line; the
\* canvas shows the second only if a RESIZE has given it a width and a height.
AdjustAddsAndCallsPaint ==
    [][\A d \in AdjustArgs :
          K_ADJUST_TIME(d) =>
              LET total == KernelTotalMs(
                               [state EXCEPT !.baseTimeMs = @ + d * MsPerSecond], now)
                  second == Floor(total, MsPerSecond)
              IN  /\ state'.baseTimeMs = state.baseTimeMs + d * MsPerSecond
                  /\ state'.startTimeMs = state.startTimeMs
                  /\ state'.isRunning = state.isRunning
                  /\ state'.lastRenderedSecond = second
                  /\ painted' = <<second>>
                  /\ (state.width # 0 /\ state.height # 0) =>
                         surface'.text = TimeText(second)
                  /\ (state.width = 0 \/ state.height = 0) => surface' = surface
      ]_vars

\* C7. Kernel: START processed while RUNNING changes nothing (anchor, base, running
\* flag, pending frame callback; no second callback is requested) and PAUSE
\* processed while STOPPED changes nothing (the base is not increased again),
\* whatever time has passed since the first START or PAUSE.
C7_StartPauseIdempotent ==
    [][/\ (K_START /\ state.isRunning) =>
              UNCHANGED <<state, animationFrameId, rafCallbacks, surface, ctx>>
       /\ (K_PAUSE /\ ~state.isRunning) =>
              UNCHANGED <<state, animationFrameId, rafCallbacks, surface, ctx>>
      ]_vars

\* a START processed while running, some time after the START that anchored
C7_Witness ==
    /\ lastMsg = "START"
    /\ fresh
    /\ wasRunning
    /\ now >= hist.anchorAt + StepMs
    /\ Cardinality(rafCallbacks) = 1

\* C8. Store: start() called while running and pause() called while paused change
\* no field of the store (baseDurationMs, startTimeMs, isRunning, snapshot), post
\* no message to the worker and call no listener.
C8_StoreStartPauseNoOp ==
    [][/\ (Start /\ store.isRunning) =>
              /\ store' = store
              /\ toWorker' = toWorker
              /\ posted' = <<>>
              /\ calls' = NoCalls
              /\ ~replaced'
       /\ (Pause /\ ~store.isRunning) =>
              /\ store' = store
              /\ toWorker' = toWorker
              /\ posted' = <<>>
              /\ calls' = NoCalls
              /\ ~replaced'
      ]_vars

\* a start() called while running, with a worker and a listener, after time passed
C8_Witness ==
    /\ lastOp = "start"
    /\ fresh
    /\ opWasRunning
    /\ store.worker
    /\ store.listeners # {}
    /\ now >= store.startTimeMs + StepMs

\* C9. Kernel render loop: a frame callback calls paint only when floor(total/1000)
\* differs from lastRenderedSecond, and then sets lastRenderedSecond to it; over a
\* run of frame callbacks with no command in between and the same whole second,
\* paint is called at most once.
C9_FramePaintsOncePerSecond ==
    [][\A id \in rafCallbacks :
          (K_FRAME(id) /\ state.isRunning) =>
              LET second == Floor(KernelTotalMs(state, now), MsPerSecond)
              IN  /\ painted' # <<>> <=> second # state.lastRenderedSecond
                  /\ painted' # <<>> => painted' = <<second>>
                  /\ state'.lastRenderedSecond = second
                  /\ hist'.secOfRun = <<second>>
                  /\ hist'.paintsOfRun <= 1
      ]_vars

\* a frame callback that did not paint, after one of the same second that did
C9_Witness ==
    /\ lastMsg = "FRAME"
    /\ fresh
    /\ painted = <<>>
    /\ hist.paintsOfRun = 1
    /\ hist.secOfRun = <<state.lastRenderedSecond>>

\* C10. Store: a TICK replaces the snapshot and calls the listeners if and only if
\* the recomputed totalSeconds or isRunning differs from the cached snapshot; the
\* TICKs handled within one whole second cause at most one notification, and a
\* replacement calls each registered listener exactly once.
C10_TickNotifiesOnVisibleChange ==
    [][OnTick =>
          LET total == store.baseDurationMs
                       + (IF store.isRunning THEN now - store.startTimeMs ELSE 0)
              second == Max(0, Floor(total, MsPerSecond))
              differs == \/ second # store.snapshot.totalSeconds
                         \/ store.isRunning # store.snapshot.isRunning
          IN  /\ replaced' <=> differs
              /\ differs => /\ store'.snapshot.totalSeconds = second
                            /\ store'.snapshot.isRunning = store.isRunning
              /\ ~differs => store'.snapshot = store.snapshot
              /\ \A l \in Listeners :
                     calls'[l] = IF differs /\ l \in store.listeners THEN 1 ELSE 0
              /\ shist'.notesOfTicks <= 1
      ]_vars

\* a TICK that changed nothing, after one of the same second that notified both
\* listeners
C10_Witness ==
    /\ lastOp = "TICK"
    /\ fresh
    /\ ~replaced
    /\ shist.notesOfTicks = 1
    /\ shist.secOfTicks = <<store.snapshot.totalSeconds>>
    /\ store.listeners = Listeners

\* C11. Kernel: the whole second is floor(total / 1000), not clamped at zero:
\* ADJUST_TIME(-10) processed less than a second after the START of a clock
\* initialised at 0 computes -10 and the text painted for it is "-00:00:10"; and
\* whenever a negative second n is painted, the text is "-" followed by the
\* HH:MM:SS of |n|.
C11_Sized == ctx /\ state.width # 0 /\ state.height # 0

C11_HMS(n) ==
    LET two(i) == IF i < 10 THEN "0" \o ToString(i) ELSE ToString(i)
    IN  two((n \div 3600) % 60) \o ":" \o two((n % 3600) \div 60) \o ":" \o two(n % 60)

C11_NegativeSecondSigned ==
    /\ (lastMsg = "ADJUST_TIME" /\ lastArg = -10 /\ wasRunning /\ fresh
           /\ hist.open /\ now - hist.anchorAt < MsPerSecond
           /\ state.baseTimeMs = -10 * MsPerSecond) =>
          /\ state.lastRenderedSecond = -10
          /\ painted = <<-10>>
          /\ C11_Sized => surface.text = "-00:00:10"
    /\ (painted # <<>> /\ C11_Sized) =>
          /\ painted[1] = state.lastRenderedSecond
          /\ painted[1] < 0 => surface.text = "-" \o C11_HMS(-painted[1])

\* INIT(0), RESIZE, START, then ADJUST_TIME(-10) within the first second: the canvas
\* shows -00:00:10
C11_Witness ==
    /\ lastMsg = "ADJUST_TIME"
    /\ lastArg = -10
    /\ wasRunning
    /\ fresh
    /\ now - hist.anchorAt = StepMs
    /\ state.baseTimeMs = -10 * MsPerSecond
    /\ surface.text = "-00:00:10"

\* C14. Kernel: PAUSE processed while RUNNING cancels the pending frame callback in
\* the same step: no callback is pending while the clock is STOPPED, so a frame
\* callback runs (and the loop paints) only between a START and the next PAUSE.
C14_PauseCancelsFrame ==
    [][/\ (K_PAUSE /\ state.isRunning) => (rafCallbacks' = {} /\ painted' = <<>>)
       /\ ~state.isRunning => rafCallbacks = {}
       /\ \A id \in rafCallbacks :
              K_FRAME(id) => (state.isRunning /\ hist.open /\ rafCallbacks = {id})
      ]_vars

\* a PAUSE that cancelled the callback requested by a frame callback, time passing
\* afterwards with nothing pending
C14_Witness ==
    /\ lastMsg = "PAUSE"
    /\ wasRunning
    /\ ~fresh
    /\ animationFrameId > 1
    /\ rafCallbacks = {}

\* C20 as stated. Kernel: ADJUST_TIME processed while RUNNING resets startTimeMs to
\* the processing time, as SET_TIME does.
C20_AdjustReanchors ==
    [][\A d \in AdjustArgs :
          (K_ADJUST_TIME(d) /\ state.isRunning) => state'.startTimeMs = now
      ]_vars

\* C20 amended. Kernel: ADJUST_TIME processed while RUNNING leaves startTimeMs at
\* the anchor of the START (or later SET_TIME) and only adds to the base: the time
\* the clock ran since that anchor stays in the total it reports.
C20_AdjustKeepsAnchor ==
    [][\A d \in AdjustArgs :
          (K_ADJUST_TIME(d) /\ state.isRunning) =>
              /\ state'.startTimeMs = state.startTimeMs
              /\ state'.startTimeMs = hist.anchorAt
              /\ state'.isRunning
              /\ state'.lastRenderedSecond =
                     Floor(state.baseTimeMs + d * MsPerSecond + (now - hist.anchorAt),
                           MsPerSecond)
      ]_vars

\* an ADJUST_TIME processed more than a second after the anchor of a running clock
C20_Witness ==
    /\ lastMsg = "ADJUST_TIME"
    /\ wasRunning
    /\ fresh
    /\ now - state.startTimeMs > MsPerSecond
    /\ state.startTimeMs = hist.anchorAt

\* C12. Store: whenever the total of I1 is negative the snapshot has
\* totalSeconds = 0 and displayTime "00:00:00", and snapshot.totalSeconds >= 0 in
\* every reachable state (initialSeconds >= 0; any start, pause, setTime, TICK).
C12_SnapshotNeverNegative ==
    LET total == store.baseDurationMs
                 + (IF store.isRunning THEN now - store.startTimeMs ELSE 0)
    IN  /\ store.snapshot.totalSeconds >= 0
        /\ total < 0 => /\ store.snapshot.totalSeconds = 0
                        /\ store.snapshot.displayTime = "00:00:00"

\* setTime(-3) called while the snapshot showed a positive second: it is replaced
\* by one showing 0
C12_Witness ==
    /\ lastOp = "setTime"
    /\ opArg = -3
    /\ fresh
    /\ replaced
    /\ store.baseDurationMs = -3 * MsPerSecond
    /\ store.snapshot.displayTime = "00:00:00"

\* C17. Store: when creating the worker throws, the failure is logged and the
\* snapshot is kept; every later start(), pause() and setTime() completes, mutates
\* the local clock state as usual and sends no message: nothing is ever queued for
\* a worker, no interval runs and no TICK arrives.
C17_FailedInitSendsNothing ==
    [][/\ \A o \in {"workerThrows", "urlThrows"} :
              UseEffect(o) => /\ logged'
                              /\ ~store'.worker
                              /\ store'.snapshot = store.snapshot
       /\ UseEffect("ok") => ~logged'
       /\ logged =>
              /\ ~store.worker /\ toWorker = <<>> /\ ~intervalId /\ ticks = 0
              /\ (Start /\ ~store.isRunning) =>
                     /\ store'.isRunning
                     /\ store'.startTimeMs = now
                     /\ posted' = <<>> /\ toWorker' = <<>>
              /\ (Pause /\ store.isRunning) =>
                     /\ ~store'.isRunning
                     /\ store'.baseDurationMs =
                            store.baseDurationMs + (now - store.startTimeMs)
                     /\ posted' = <<>> /\ toWorker' = <<>>
              /\ \A s \in StoreSetTimeArgs :
                     SetTime(s) => /\ store'.baseDurationMs = s * MsPerSecond
                                   /\ posted' = <<>> /\ toWorker' = <<>>
      ]_vars

\* after a failed initialisation: start(), time passing, pause(): the time is
\* folded into the base and nothing was sent
C17_Witness ==
    /\ logged
    /\ lastOp = "pause"
    /\ opWasRunning
    /\ fresh
    /\ now - store.startTimeMs >= 2 * StepMs
    /\ store.baseDurationMs % MsPerSecond = 2 * StepMs
    /\ posted = <<>>

\* C18 as stated. Store: after a failed initialisation the snapshot stays the
\* initial one (isRunning = false, totalSeconds = initialSeconds) whatever
\* start(), pause() or setTime() is called.
C18_FailedInitKeepsSnapshot ==
    [][(logged /\ (Start \/ Pause \/ \E s \in StoreSetTimeArgs : SetTime(s))) =>
           store'.snapshot = store.snapshot
      ]_vars

\* C18 amended. Store: after a failed initialisation the snapshot changes only in
\* control calls (no TICK ever arrives), and there it changes as in a working
\* store: start() publishes isRunning = true, pause() the folded total with
\* isRunning = false, setTime(s) the second max(0, s).
C18_FailedInitLocalClock ==
    [][logged =>
           /\ store'.snapshot # store.snapshot =>
                  (Start \/ Pause \/ \E s \in StoreSetTimeArgs : SetTime(s))
           /\ ~OnTick
           /\ (Start /\ ~store.isRunning) =>
                  /\ store'.snapshot.isRunning
                  /\ store'.snapshot.totalSeconds =
                         Max(0, Floor(store.baseDurationMs, MsPerSecond))
           /\ (Pause /\ store.isRunning) =>
                  /\ ~store'.snapshot.isRunning
                  /\ store'.snapshot.totalSeconds =
                         Max(0, Floor(store.baseDurationMs + (now - store.startTimeMs),
                                      MsPerSecond))
           /\ \A s \in StoreSetTimeArgs :
                  SetTime(s) => /\ store'.snapshot.totalSeconds = Max(0, s)
                                /\ store'.snapshot.isRunning = store.isRunning
      ]_vars

\* after a failed initialisation, start() has published a running snapshot
C18_Witness ==
    /\ logged
    /\ lastOp = "start"
    /\ ~opWasRunning
    /\ replaced
    /\ store.snapshot.isRunning

\* C19 as stated. Store: every setTime(s), and every start() or pause() that is not
\* a no-op, notifies the registered listeners, whether or not the recomputed
\* totalSeconds and isRunning differ from the cached snapshot.
C19_CommandsAlwaysNotify ==
    [][/\ \A s \in StoreSetTimeArgs :
              SetTime(s) => \A l \in store.listeners : calls'[l] = 1
       /\ (Start /\ ~store.isRunning) => \A l \in store.listeners : calls'[l] = 1
       /\ (Pause /\ store.isRunning) => \A l \in store.listeners : calls'[l] = 1
      ]_vars

\* C19 amended. Store: setTime(s), and start() or pause() that is not a no-op,
\* recompute the snapshot at once, through the same dirty check as a TICK: the
\* snapshot is replaced and each listener called once exactly when the recomputed
\* totalSeconds or isRunning differs from the cached one. start() and pause()
\* change isRunning and so always notify; setTime(0) while 00:00:00 is shown
\* notifies nobody.
C19_CommandsNotifyOnVisibleChange ==
    [][/\ \A s \in StoreSetTimeArgs :
              SetTime(s) =>
                  LET differs == Max(0, s) # store.snapshot.totalSeconds
                  IN  /\ replaced' <=> differs
                      /\ store'.snapshot.totalSeconds = Max(0, s)
                      /\ store'.snapshot.isRunning = store.isRunning
                      /\ ~differs => store'.snapshot = store.snapshot
                      /\ \A l \in Listeners :
                             calls'[l] = IF differs /\ l \in store.listeners
                                         THEN 1 ELSE 0
       /\ ((Start /\ ~store.isRunning) \/ (Pause /\ store.isRunning)) =>
              /\ replaced'
              /\ store'.snapshot.isRunning = ~store.isRunning
              /\ \A l \in Listeners :
                     calls'[l] = IF l \in store.listeners THEN 1 ELSE 0
      ]_vars

\* setTime(0) called with a listener registered while 00:00:00 was shown: no
\* snapshot replaced, no listener called
C19_Witness ==
    /\ lastOp = "setTime"
    /\ opArg = 0
    /\ fresh
    /\ ~replaced
    /\ store.listeners # {}
    /\ calls = NoCalls
    /\ store.snapshot.displayTime = "00:00:00"

\* C13. Kernel and store: over any sequence of START, PAUSE, frame callbacks and
\* TICKs (no SET_TIME, ADJUST_TIME or setTime) the reported whole second
\* (lastRenderedSecond after INIT, snapshot.totalSeconds) never decreases from one
\* step to the next and never falls below initialSeconds, however late the frames
\* and the TICKs run.
C13_ReportedSecondMonotonic ==
    [][/\ state'.lastRenderedSecond >= state.lastRenderedSecond
       /\ lastMsg' # "NONE" => state'.lastRenderedSecond >= hist'.initial
       /\ store'.snapshot.totalSeconds >= store.snapshot.totalSeconds
       /\ hist'.pure /\ adjusts' = 0
      ]_vars

\* the first frame callback after start, run, pause, idle, start, run: it runs late
\* and reports a second above the one shown before
C13_Witness ==
    /\ lastMsg = "FRAME"
    /\ fresh
    /\ painted # <<>>
    /\ hist.runs >= 1
    /\ hist.runSum >= StepMs
    /\ now - hist.anchorAt >= 2 * StepMs
    /\ state.lastRenderedSecond > hist.initial

\* C15. Store teardown: whatever the initialisation created (worker and URL, the
\* URL only, nothing) and whether or not the clock runs, the cleanup terminates the
\* worker if there is one and revokes the URL if there is one and leaves the clock
\* state alone; afterwards no message, interval or TICK exists and no TICK is
\* handled, whatever is called; a second cleanup changes nothing.
C15_TeardownReleasesWorker ==
    [][/\ Cleanup =>
              /\ terminated' = (terminated \/ store.worker)
              /\ revoked' = (revoked \/ workerUrl)
              /\ store' = store
       /\ (Cleanup /\ mounted = "unmounted") =>
              UNCHANGED <<store, terminated, revoked, toWorker, intervalId, ticks>>
       /\ mounted = "unmounted" =>
              /\ terminated = store.worker
              /\ revoked = workerUrl
              /\ toWorker = <<>> /\ ~intervalId /\ ticks = 0
              /\ ~OnTick /\ ~W_OnMessage /\ ~W_Interval
      ]_vars

\* the cleanup has run twice on a running clock whose worker was created; start()
\* was called and time has passed since
C15_Witness ==
    /\ mounted = "unmounted"
    /\ cleanups = 2
    /\ terminated
    /\ revoked
    /\ store.isRunning
    /\ lastOp = "start"
    /\ posted = <<"START">>
    /\ ~fresh

\* C16. MissionClock: unmounting, whether the kernel is RUNNING or STOPPED,
\* terminates the kernel worker, revokes its blob URL, disconnects the observer and
\* clears workerRef; what was posted and not yet processed is dropped. Afterwards
\* nothing changes in the kernel (no handler and no frame callback runs, nothing is
\* painted) and nothing is in flight to it, whatever the observer, the config
\* effect or the controller (start, pause, setTime, adjustTime) is asked to do.
C16_UnmountStopsKernel ==
    [][/\ M_Unmount =>
              /\ ~clock'.alive
              /\ clock'.url = "revoked"
              /\ ~clock'.observing
              /\ ~clock'.workerRef
              /\ toKernel' = <<>>
       /\ clock.phase = "unmounted" =>
              /\ ~clock.alive /\ clock.url = "revoked"
              /\ toKernel = <<>> /\ toKernel' = <<>>
              /\ UNCHANGED <<ctx, animationFrameId, state, rafCallbacks, surface,
                             lastMsg, painted>>
              /\ \A g \in ObservedGeometries : ~M_Resize(g[1], g[2])
      ]_vars

\* unmounted while RUNNING with a frame callback pending and the canvas painted; the
\* controller was called afterwards and time has passed
C16_Witness ==
    /\ clock.phase = "unmounted"
    /\ clock.calledAfter
    /\ state.isRunning
    /\ rafCallbacks # {}
    /\ surface.text # ""
    /\ ~fresh

\* A step in which the store ran op(arg), as far as the observation of the last
\* handler and the queues tell (time stands still, the worker took no step): every
\* step of Start, Pause, SetTime(arg) and OnTick satisfies it, so conjoining it to
\* one of them changes nothing but the order of evaluation.
StoreRan(op, arg) ==
    /\ lastOp' = op
    /\ opArg' = arg
    /\ now' = now
    /\ ticks' <= ticks
    /\ Len(toWorker') >= Len(toWorker)

\* C21 as stated. Store: setTime(s) sets baseDurationMs to s * 1000, resets
\* startTimeMs to the call time only if running, leaves isRunning unchanged and
\* posts nothing; the snapshot right after it has totalSeconds = max(0, s); while
\* running, a TICK handled d ms later reports floor(s + d / 1000).
C21_SetTimeThenTickFloor ==
    [][/\ \A s \in StoreSetTimeArgs :
              (StoreRan("setTime", s) /\ SetTime(s)) =>
                  /\ store'.baseDurationMs = s * MsPerSecond
                  /\ store'.startTimeMs = IF store.isRunning THEN now
                                          ELSE store.startTimeMs
                  /\ store'.isRunning = store.isRunning
                  /\ posted' = <<>> /\ toWorker' = toWorker
                  /\ store'.snapshot.totalSeconds = Max(0, s)
       /\ (shist.setTime # <<>> /\ StoreRan("TICK", 0) /\ OnTick) =>
              store'.snapshot.totalSeconds =
                  Floor(shist.setTime[2] * MsPerSecond + (now - shist.setTime[1]),
                        MsPerSecond)
      ]_vars

\* C21 amended. Store: the same, the TICK handled d ms after a setTime(s) called
\* while running reporting max(0, floor(s + d / 1000)): the clamp at zero that
\* applies to the snapshot right after the call applies to the TICKs as well.
C21_SetTimeThenTickClamped ==
    [][/\ \A s \in StoreSetTimeArgs :
              (StoreRan("setTime", s) /\ SetTime(s)) =>
                  /\ store'.baseDurationMs = s * MsPerSecond
                  /\ store'.startTimeMs = IF store.isRunning THEN now
                                          ELSE store.startTimeMs
                  /\ store'.isRunning = store.isRunning
                  /\ posted' = <<>> /\ toWorker' = toWorker
                  /\ store'.snapshot.totalSeconds = Max(0, s)
                  /\ store'.snapshot.isRunning = store.isRunning
       /\ (shist.setTime # <<>> /\ StoreRan("TICK", 0) /\ OnTick) =>
              /\ store.isRunning
              /\ store'.snapshot.totalSeconds =
                     Max(0, Floor(shist.setTime[2] * MsPerSecond
                                      + (now - shist.setTime[1]), MsPerSecond))
      ]_vars

\* start(), time passing, setTime(2) while running, and a TICK handled 1200 ms
\* after it: the snapshot shows 3
C21_Witness ==
    /\ lastOp = "TICK"
    /\ fresh
    /\ replaced
    /\ shist.setTime # <<>>
    /\ shist.setTime[2] = 2
    /\ shist.setTime[1] >= StepMs
    /\ now - shist.setTime[1] = 3 * StepMs
    /\ store.snapshot.totalSeconds = 3

\* C22. Kernel: INIT(initialSeconds) sets baseTimeMs = initialSeconds * 1000 and
\* lastRenderedSecond = initialSeconds and paints initialSeconds at once (INIT(0)
\* shows 00:00:00), no RESIZE having been processed before it.
C22_InitPaints ==
    [][\A s \in InitialSecondsSet :
          K_INIT(s) =>
              /\ state'.baseTimeMs = s * MsPerSecond
              /\ state'.lastRenderedSecond = s
              /\ painted' = <<s>>
              /\ surface'.text = TimeText(s)
              /\ s = 0 => surface'.text = "00:00:00"
      ]_vars

\* What INIT does do: the state is set and paint is called, and paint returns at
\* its check of the width and the height, which only a RESIZE sets: the canvas
\* stays as it was.
InitSetsAndCallsPaint ==
    [][\A s \in InitialSecondsSet :
          K_INIT(s) =>
              /\ state'.baseTimeMs = s * MsPerSecond
              /\ state'.lastRenderedSecond = s
              /\ painted' = <<s>>
              /\ state'.width = 0 /\ state'.height = 0
              /\ surface' = surface
      ]_vars

\* C23. Kernel: RESIZE and UPDATE_CONFIG processed in any state after INIT, RUNNING
\* or STOPPED and whatever the last rendered second is (a negative one included),
\* each repaint the last rendered second at once, with the new geometry or config.
C23_ResizeAndConfigRepaint ==
    [][/\ \A g \in ObservedGeometries :
              K_RESIZE(g[1], g[2]) =>
                  /\ painted' = <<state.lastRenderedSecond>>
                  /\ surface' = [text |-> TimeText(state.lastRenderedSecond),
                                 width |-> g[1], height |-> g[2],
                                 config |-> state.config]
       /\ \A c \in Configs :
              K_UPDATE_CONFIG(c) =>
                  /\ painted' = <<state.lastRenderedSecond>>
                  /\ (state.width # 0 /\ state.height # 0) =>
                         surface' = [text |-> TimeText(state.lastRenderedSecond),
                                     width |-> state.width, height |-> state.height,
                                     config |-> c]
      ]_vars

\* What RESIZE and UPDATE_CONFIG do do: they store the geometry or the config in
\* either state, and repaint only a last rendered second that is not negative.
RepaintsNonNegativeOnly ==
    [][/\ \A g \in ObservedGeometries :
              K_RESIZE(g[1], g[2]) =>
                  /\ state'.width = g[1] /\ state'.height = g[2]
                  /\ IF state.lastRenderedSecond >= 0
                     THEN /\ painted' = <<state.lastRenderedSecond>>
                          /\ surface' = [text |-> TimeText(state.lastRenderedSecond),
                                         width |-> g[1], height |-> g[2],
                                         config |-> state.config]
                     ELSE painted' = <<>> /\ surface' = surface
       /\ \A c \in Configs :
              K_UPDATE_CONFIG(c) =>
                  /\ state'.config = c
                  /\ IF state.lastRenderedSecond >= 0
                     THEN /\ painted' = <<state.lastRenderedSecond>>
                          /\ (state.width # 0 /\ state.height # 0) =>
                                 surface' = [text |-> TimeText(state.lastRenderedSecond),
                                             width |-> state.width,
                                             height |-> state.height, config |-> c]
                     ELSE painted' = <<>> /\ surface' = surface
      ]_vars

\* C24. Kernel: a command whose payload is missing or lacks its numeric field
\* (SET_TIME, ADJUST_TIME), and a message of unknown type, are ignored: baseTimeMs,
\* startTimeMs, isRunning and lastRenderedSecond stay as they were, and the valid
\* commands after it are processed as usual (the clock state stays numeric).
C24_MalformedIgnored ==
    [][/\ (\/ K_SET_TIME(Undefined)
           \/ K_ADJUST_TIME(Undefined)
           \/ \E type \in {"SET_TIME", "ADJUST_TIME"} : K_NoPayload(type)
           \/ K_UNKNOWN) =>
              /\ state'.baseTimeMs = state.baseTimeMs
              /\ state'.startTimeMs = state.startTimeMs
              /\ state'.isRunning = state.isRunning
              /\ state'.lastRenderedSecond = state.lastRenderedSecond
       /\ IsNum(state'.baseTimeMs)
       /\ IsNum(state'.lastRenderedSecond)
      ]_vars

\* What the kernel does do: a message of unknown type, and a SET_TIME or
\* ADJUST_TIME without any payload, change nothing; a payload without the numeric
\* field is processed: SET_TIME leaves baseTimeMs NaN and lastRenderedSecond
\* undefined, ADJUST_TIME leaves both NaN, and baseTimeMs stays NaN through every
\* PAUSE, ADJUST_TIME and frame until a SET_TIME with a number is processed.
MalformedPoisonsBase ==
    [][/\ ((\E type \in {"SET_TIME", "ADJUST_TIME"} : K_NoPayload(type)) \/ K_UNKNOWN) =>
              UNCHANGED <<state, surface, rafCallbacks, animationFrameId>>
       /\ K_SET_TIME(Undefined) =>
              /\ state'.baseTimeMs = NaN
              /\ state'.lastRenderedSecond = Undefined
              /\ state'.isRunning = state.isRunning
       /\ K_ADJUST_TIME(Undefined) =>
              /\ state'.baseTimeMs = NaN
              /\ state'.lastRenderedSecond = NaN
              /\ state'.isRunning = state.isRunning
              /\ state'.startTimeMs = state.startTimeMs
       /\ (state.baseTimeMs = NaN /\ state'.baseTimeMs # NaN) =>
              \E s \in PayloadSetTimeArgs : IsNum(s) /\ K_SET_TIME(s)
       /\ (state.width # 0 /\ state.height # 0 /\ painted' # <<>>
              /\ ~IsNum(painted'[1])) =>
              surface'.text = "undefined:undefined:undefined"
      ]_vars

\* C25. Kernel UPDATE_CONFIG: the options the payload omits keep the values they
\* had; only the options present in the payload change.
C25_ConfigPartialUpdate ==
    [][\A c \in Configs :
          K_UPDATE_CONFIG(c) =>
              \A o \in OptionNames :
                  Options(state'.config)[o] =
                      IF Options(c)[o] # "undefined" THEN Options(c)[o]
                      ELSE Options(state.config)[o]
      ]_vars

\* What UPDATE_CONFIG does do: the payload object becomes the config as a whole;
\* an option it omits is undefined afterwards.
ConfigReplacedWhole ==
    [][\A c \in Configs :
          K_UPDATE_CONFIG(c) =>
              /\ state'.config = c
              /\ \A o \in OptionNames : Options(state'.config)[o] = Options(c)[o]
      ]_vars

\* C26. Timer worker: once START is processed it posts one TICK every 50 ms, the
\* k-th exactly k * 50 ms after that START, until STOP is processed; once STOP is
\* processed it posts no TICK until the next START.
C26_TicksEveryFiftyMs ==
    [][/\ T_OnMessage("START") =>
              /\ intervalId' /\ ticks' = ticks
              /\ timer'.since = now /\ timer'.count = 0
       /\ T_OnMessage("STOP") => (~intervalId' /\ ticks' = ticks)
       /\ T_Interval =>
              /\ intervalId /\ intervalId'
              /\ ticks' = ticks + 1
              /\ now = timer.since + timer'.count * TICK_RATE_MS
       /\ intervalId =>
              /\ timer.count * TICK_RATE_MS <= now - timer.since
              /\ now - timer.since <= (timer.count + 1) * TICK_RATE_MS
              /\ now - timer.since < (timer.count + 1) * TICK_RATE_MS =>
                     /\ timer.count = (now - timer.since) \div TICK_RATE_MS
                     /\ ticks' = ticks
       /\ ~intervalId => ticks' = ticks
      ]_vars

\* START, a TICK, STOP, time passing without a TICK, START again and its second
\* TICK 100 ms later
C26_Witness ==
    /\ intervalId
    /\ timer.count = 2
    /\ now = timer.since + 2 * TICK_RATE_MS
    /\ timer.since >= TICK_RATE_MS + TimerStepMs
    /\ ticks = 3

\* C27. Store snapshot identity: store.snapshot (what getSnapshot() returns) stays
\* the very same object, unchanged, through every step that does not install a new
\* one; a new one is installed only by a recompute that finds another
\* totalSeconds or isRunning, it is that recompute, and so two consecutive
\* snapshots always differ in totalSeconds or isRunning; a TICK or a setTime whose
\* recompute finds the same two values installs nothing.
C27_SnapshotReplacedOnlyOnChange ==
    [][LET recomputes == \/ StoreRan("start", 0) /\ Start
                         \/ StoreRan("pause", 0) /\ Pause
                         \/ StoreRan("TICK", 0) /\ OnTick
                         \/ \E s \in StoreSetTimeArgs : StoreRan("setTime", s) /\ SetTime(s)
           installs == replaced' /\ recomputes
           total == store'.baseDurationMs
                    + (IF store'.isRunning THEN now - store'.startTimeMs ELSE 0)
           second == Max(0, Floor(total, MsPerSecond))
           differs == \/ second # store.snapshot.totalSeconds
                      \/ store'.isRunning # store.snapshot.isRunning
       IN  /\ store'.snapshot # store.snapshot => installs
           /\ installs =>
                  /\ differs
                  /\ store'.snapshot = [totalSeconds |-> second,
                                        displayTime |-> formatTime(second),
                                        isRunning |-> store'.isRunning]
                  /\ \/ store'.snapshot.totalSeconds # store.snapshot.totalSeconds
                     \/ store'.snapshot.isRunning # store.snapshot.isRunning
           /\ (\/ StoreRan("TICK", 0) /\ OnTick
               \/ \E s \in StoreSetTimeArgs : StoreRan("setTime", s) /\ SetTime(s)) =>
                  (replaced' <=> differs)
      ]_vars

\* a running clock shows 00:00:01 after a TICK; setTime(2) installs a new snapshot
C27_Witness ==
    /\ lastOp = "setTime"
    /\ opArg = 2
    /\ opWasRunning
    /\ fresh
    /\ replaced
    /\ now >= 3 * StepMs
    /\ store.baseDurationMs = 2 * MsPerSecond
    /\ store.snapshot.totalSeconds = 2
    /\ store.snapshot.isRunning

\* C28. Store subscribe(): the registered listeners are exactly those subscribe()
\* was called with and whose unregister function was not called since; every
\* replacement of the snapshot calls each of them once, after the new snapshot is
\* in place, and calls no other; nothing else calls a listener.
C28_ListenersCalledWhileRegistered ==
    [][/\ \A l \in Listeners :
              /\ (lastOp' = "subscribe" /\ Subscribe(l)) =>
                     store'.listeners = store.listeners \cup {l}
              /\ (lastOp' = "unsubscribe" /\ Unsubscribe(l)) =>
                     store'.listeners = store.listeners \ {l}
       /\ store'.listeners # store.listeners =>
              \E l \in Listeners : Subscribe(l) \/ Unsubscribe(l)
       /\ store'.snapshot # store.snapshot =>
              /\ \A l \in Listeners :
                     calls'[l] = IF l \in store.listeners THEN 1 ELSE 0
              /\ store.listeners # {} => seen' = <<store'>>
       /\ \A l \in Listeners :
              /\ calls'[l] <= 1
              /\ calls'[l] = 1 => (l \in store'.listeners /\ replaced')
      ]_vars

\* both listeners were registered and one unregistered again; a TICK replaces the
\* snapshot and calls the other one only
C28_Witness ==
    /\ lastOp = "TICK"
    /\ fresh
    /\ replaced
    /\ store.listeners = {"l2"}
    /\ calls = [l \in Listeners |-> IF l = "l2" THEN 1 ELSE 0]
    /\ seen = <<store>>
    /\ store.snapshot.totalSeconds >= 1

\* C29. Kernel paint: for every whole second n the text painted is the sign ("-"
\* for n < 0) followed by HH:MM:SS with HH = floor(|n| / 3600) mod 60,
\* MM = floor((|n| mod 3600) / 60), SS = |n| mod 60, each written with two decimal
\* digits; the three fields are always within 00..59, the hours wrap at 60
\* (216000 is painted as 00:00:00).
C29_DecimalDigit(d) ==
    CASE d = 0 -> "0" [] d = 1 -> "1" [] d = 2 -> "2" [] d = 3 -> "3" [] d = 4 -> "4"
      [] d = 5 -> "5" [] d = 6 -> "6" [] d = 7 -> "7" [] d = 8 -> "8" [] d = 9 -> "9"

C29_TwoDigits(i) == C29_DecimalDigit(i \div 10) \o C29_DecimalDigit(i % 10)

C29_PaintedTextIsHMS ==
    (painted # <<>> /\ ctx /\ state.width # 0 /\ state.height # 0) =>
        LET n == painted[1]
            a == IF n < 0 THEN -n ELSE n
            HH == (a \div 3600) % 60
            MM == (a % 3600) \div 60
            SS == a % 60
        IN  /\ HH \in 0..59 /\ MM \in 0..59 /\ SS \in 0..59
            /\ surface.text = (IF n < 0 THEN "-" ELSE "")
                                  \o C29_TwoDigits(HH) \o ":" \o C29_TwoDigits(MM)
                                  \o ":" \o C29_TwoDigits(SS)
            /\ n = 216000 => surface.text = "00:00:00"
            /\ n = -(61 * 3600 + 59 * 60 + 59) => surface.text = "-01:59:59"

\* SET_TIME(216000) processed on a sized canvas: the hours have wrapped
C29_Witness ==
    /\ lastMsg = "SET_TIME"
    /\ lastArg = 60 * 3600
    /\ painted = <<216000>>
    /\ state.width # 0
    /\ surface.text = "00:00:00"

\* C30: MissionClock posts INIT as the first message to each kernel worker it
\* creates and posts it exactly once to that worker; every RESIZE, UPDATE_CONFIG,
\* START, PAUSE, SET_TIME and ADJUST_TIME message for the worker is posted after it
\* (and so the first message a kernel receives is INIT).
C30_OtherTypes ==
    {"RESIZE", "UPDATE_CONFIG", "START", "PAUSE", "SET_TIME", "ADJUST_TIME"}

C30_InitFirstAndOnce ==
    [][/\ clock'.worker # clock.worker =>
            /\ clock'.worker = clock.worker + 1
            /\ clock'.first = "INIT"
            /\ clock'.inits = 1
            /\ Len(toKernel') = 1
            /\ toKernel'[1].type = "INIT"
       /\ clock'.worker = clock.worker =>
            /\ clock'.inits = clock.inits
            /\ clock'.first # clock.first => clock'.first = "INIT"
            /\ Len(toKernel') > Len(toKernel) =>
                  /\ toKernel'[Len(toKernel')].type \in C30_OtherTypes
                  /\ clock.first = "INIT"
                  /\ clock.inits = 1
            /\ (clock' # clock /\ clock.worker > 0) =>
                  (clock.first = "INIT" /\ clock.inits = 1)
       /\ clock.worker = 0 =>
            (clock.first = "none" /\ clock.inits = 0 /\ toKernel = <<>>)
       /\ (lastMsg = "NONE" /\ lastMsg' # "NONE") => lastMsg' = "INIT"
       /\ \A i \in 2..Len(toKernel') : toKernel'[i].type \in C30_OtherTypes
      ]_vars

\* the second worker of a remounted component has processed its INIT and then a
\* RESIZE the observer posted
C30_Witness ==
    /\ clock.worker = 2
    /\ clock.phase = "mounted"
    /\ clock.first = "INIT"
    /\ clock.inits = 1
    /\ lastMsg = "RESIZE"

\* C31: a TICK processed while the store is paused (one that was in flight when
\* pause() was called, or any other) leaves the snapshot unchanged and calls no
\* listener.
C31_TickWhilePausedIsSilent ==
    [][(StoreRan("TICK", 0) /\ ~store.isRunning) =>
          /\ store' = store
          /\ store'.snapshot = store.snapshot
          /\ ~replaced'
          /\ calls' = NoCalls
          /\ seen' = <<>>
      ]_vars

\* a TICK was processed after pause() froze a clock that had run into a second,
\* with a listener registered
C31_Witness ==
    /\ lastOp = "TICK"
    /\ ~opWasRunning
    /\ ~store.isRunning
    /\ store.worker
    /\ store.listeners # {}
    /\ now > 0
    /\ store.baseDurationMs % MsPerSecond # 0

\* C32: the messages the store posts to its timer worker alternate START, STOP,
\* START, ... beginning with START, whatever start(), pause() and setTime() calls
\* are made; so once the worker has processed every message posted to it, it has
\* an interval set exactly if the store's isRunning is true.
C32_Alternates(q, before) ==
    \A i \in 1..Len(q) :
        LET prev == IF i = 1 THEN before ELSE q[i - 1]
        IN  IF q[i] = "START" THEN prev \in {"none", "STOP"}
            ELSE q[i] = "STOP" /\ prev = "START"

C32_StartStopAlternate ==
    /\ shist.alternates
    /\ shist.lastPost = "START" <=> (store.worker /\ store.isRunning)
    /\ ~terminated =>
          /\ C32_Alternates(toWorker, IF intervalId THEN "START" ELSE "none")
          /\ toWorker # <<>> => toWorker[Len(toWorker)] = shist.lastPost
    /\ (store.worker /\ ~terminated /\ toWorker = <<>>) =>
          (intervalId <=> store.isRunning)

\* start(), pause() after a part of a second and start() again were called, and
\* the worker has processed all three messages: its interval is set
C32_Witness ==
    /\ store.worker
    /\ ~terminated
    /\ toWorker = <<>>
    /\ intervalId
    /\ store.isRunning
    /\ shist.lastPost = "START"
    /\ store.baseDurationMs % MsPerSecond # 0
    /\ lastOp = "start"

\* C33: for a store created with a non-negative whole initialSeconds, after every
\* public action and every TICK handler snapshot.isRunning equals the store's
\* isRunning, and while isRunning is false snapshot.totalSeconds is
\* max(0, floor(baseDurationMs / 1000)).
C33_SnapshotAgreesWithStore ==
    /\ store.snapshot.isRunning = store.isRunning
    /\ ~store.isRunning =>
          store.snapshot.totalSeconds =
              (IF store.baseDurationMs < 0 THEN 0
               ELSE (store.baseDurationMs - (store.baseDurationMs % MsPerSecond))
                        \div MsPerSecond)

\* setTime(-3) was called on a paused store that had run: the snapshot shows 0
C33_Witness ==
    /\ lastOp = "setTime"
    /\ opArg = -3
    /\ ~store.isRunning
    /\ store.baseDurationMs = -3000
    /\ store.snapshot.totalSeconds = 0
    /\ now > 0
    /\ shist.lastPost = "STOP"

\* C34. Kernel: whenever the kernel is STOPPED after INIT, lastRenderedSecond is
\* floor(baseTimeMs / 1000): a paused clock displays the folded total, also when
\* the last frame callback before PAUSE ran in an earlier whole second than the
\* one in which PAUSE was processed.
C34_StoppedShowsFoldedTotal ==
    (lastMsg # "NONE" /\ ~state.isRunning) =>
        state.lastRenderedSecond = Floor(state.baseTimeMs, MsPerSecond)

\* What PAUSE does do: it folds the elapsed time into baseTimeMs and neither
\* writes lastRenderedSecond nor paints, so the second on display is the one of
\* the last frame callback or command before it.
PauseFoldsWithoutPainting ==
    [][K_PAUSE =>
          /\ state'.lastRenderedSecond = state.lastRenderedSecond
          /\ painted' = <<>>
          /\ surface' = surface
          /\ state.isRunning =>
                state'.baseTimeMs = state.baseTimeMs + (now - state.startTimeMs)
      ]_vars

\* C35. Kernel: between handlers exactly one frame callback is pending while the
\* kernel is RUNNING and none while it is STOPPED, whatever commands and frames
\* were processed; a frame callback that runs while RUNNING requests exactly one
\* successor (the loop is never scheduled twice for a frame and never dies).
C35_OnePendingFrameWhileRunning ==
    /\ Cardinality(rafCallbacks) = (IF state.isRunning THEN 1 ELSE 0)
    /\ state.isRunning => rafCallbacks = {animationFrameId}
    /\ (lastMsg = "FRAME" /\ fresh) =>
          (wasRunning /\ state.isRunning /\ animationFrameId \in rafCallbacks)

\* a frame callback ran during the second run of the clock, after a PAUSE and a
\* START, and left its successor pending
C35_Witness ==
    /\ lastMsg = "FRAME"
    /\ fresh
    /\ state.isRunning
    /\ Cardinality(rafCallbacks) = 1
    /\ state.baseTimeMs % MsPerSecond # 0
    /\ now > state.startTimeMs

\* C36. Timer worker: whatever START and STOP messages it is handed, repeated
\* ones included, at most one interval timer exists, one exists exactly if the last
\* START or STOP processed was a START, and a START processed while an interval is
\* set replaces it: the next TICK comes 50 ms after that START and no second
\* ticker is left.
C36_OneIntervalAtMost ==
    /\ Cardinality(timer.active) <= 1
    /\ intervalId <=> (timer.last = "START")
    /\ timer.active = (IF timer.last = "START" THEN {timer.due} ELSE {})
    /\ timer.last = "START" =>
          /\ timer.due = timer.since + (timer.count + 1) * TICK_RATE_MS
          /\ now <= timer.due

\* a START was processed while an interval was set, in the middle of its period,
\* and the first TICK after it came 50 ms after it
C36_Witness ==
    /\ timer.last = "START"
    /\ timer.was
    /\ timer.since % TICK_RATE_MS # 0
    /\ timer.count = 1
    /\ now = timer.since + TICK_RATE_MS
    /\ ticks >= 1

\* C37. Kernel and caller: the kernel applies the commands one by one in the order
\* in which they were sent, so once it has processed all of them it is RUNNING
\* exactly if the last START or PAUSE sent was a START, which is what App's own
\* isRunning says.
RECURSIVE C37_RunningAfter(_, _)
C37_RunningAfter(q, running) ==
    IF q = <<>> THEN running
    ELSE C37_RunningAfter(Tail(q),
                          IF Head(q).type = "START" THEN TRUE
                          ELSE IF Head(q).type = "PAUSE" THEN FALSE
                          ELSE running)

C37_KernelAgreesWithCaller ==
    [][/\ (clock.alive /\ clock'.alive /\ Len(toKernel') < Len(toKernel)) =>
              /\ toKernel' = Tail(toKernel)
              /\ lastMsg' = Head(toKernel).type
              /\ lastArg' = Head(toKernel).a
       /\ (clock.alive /\ Len(toKernel') > Len(toKernel)) =>
              SubSeq(toKernel', 1, Len(toKernel)) = toKernel
       /\ clock'.alive =>
              C37_RunningAfter(toKernel', state'.isRunning) = clock'.app
       /\ (clock'.alive /\ toKernel' = <<>>) => state'.isRunning = clock'.app
      ]_vars

\* START, PAUSE and START were sent within one instant and the kernel has
\* processed all three: it is RUNNING, as App says
C37_Witness ==
    /\ clock.alive
    /\ toKernel = <<>>
    /\ lastMsg = "START"
    /\ ~wasRunning
    /\ state.isRunning
    /\ clock.app
    /\ hist.runs = 1
    /\ hist.runSum = 0
    /\ now = 0

\* C38. Kernel: RESIZE and UPDATE_CONFIG, RUNNING or STOPPED, leave baseTimeMs,
\* startTimeMs, isRunning and lastRenderedSecond as they are and neither request
\* nor cancel a frame callback.
C38_ResizeAndConfigKeepClock ==
    [][(lastMsg' \in {"RESIZE", "UPDATE_CONFIG"} /\ fresh' /\ steps' = steps) =>
          /\ state'.baseTimeMs = state.baseTimeMs
          /\ state'.startTimeMs = state.startTimeMs
          /\ state'.isRunning = state.isRunning
          /\ state'.lastRenderedSecond = state.lastRenderedSecond
          /\ rafCallbacks' = rafCallbacks
          /\ animationFrameId' = animationFrameId
      ]_vars

\* an UPDATE_CONFIG processed on a sized canvas while the clock is RUNNING, some
\* time after its START, with the frame callback still pending
C38_Witness ==
    /\ lastMsg = "UPDATE_CONFIG"
    /\ fresh
    /\ state.isRunning
    /\ wasRunning
    /\ Cardinality(rafCallbacks) = 1
    /\ state.config = "custom"
    /\ state.width = 800
    /\ now > state.startTimeMs
    /\ state.baseTimeMs # 0

====
